---- MODULE Spec2Model ----
(***************************************************************************)
(* A model of the oscquery namespace tree (src/src/root.rs), its nodes     *)
(* (src/src/node.rs) and the OSC write path into node parameters.          *)
(*                                                                         *)
(* Strings are sequences of one-character strings, so that format! and     *)
(* String::contains are computed and not assumed.  Option<T> is a sequence *)
(* of length 0 (None) or 1 (Some(x)).  Result<T,E> is a record with a      *)
(* field ok and a field v (the Ok value or the Err payload).               *)
(***************************************************************************)
EXTENDS Integers, Sequences, FiniteSets, TLC

VARIABLES
    root,        \* RootInner: name, graph, root, index_map, ns_change_send
    ns_channel,  \* the sync_channel behind ns_change_send: queue and receiver
    last,        \* the last call made on the tree and what it returned
    lock,        \* the RwLock around RootInner: poisoned or not, its writer
    osc,         \* OscService: the worker thread, its command channel, the peers
    ws,          \* WSService: the command channel and the client sessions
    threads      \* application threads sharing the Root: position and result

\* what the tree on its own leaves alone
services == <<lock, osc, ws, threads>>

vars == <<root, ns_channel, last, lock, osc, ws, threads>>

----------------------------------------------------------------------------
(* Bounds of the model *)

\* total number of node slots the graph may ever allocate (root included),
\* in the specification of the tree on its own
MaxNodes == 4

\* the same, in the specification with a namespace-change consumer
MaxNsNodes == 3

\* capacity of the namespace-change channel; the code's NS_CHANGE_LEN is
\* 1024 (root.rs:16), scaled down so that a full channel is reachable
NS_CHANGE_LEN == 2

\* the most arguments an OSC message carries
MaxArgs == 2

\* the most commands waiting in a WebSocket session's channel
MaxRx == 2

\* total number of node slots in the specification of the WebSocket service
MaxWsNodes == 4

\* the number of threads that share a Root and the number of calls they
\* make between them
NumThreads == 2
MaxCalls == 4

\* capacity of the OSC service's command channel; the code's CHANNEL_LEN is
\* 1024 (service/osc.rs:16), scaled down so that a full channel is reachable
CHANNEL_LEN == 2

----------------------------------------------------------------------------
(* Option and Result *)

None == <<>>
Some(x) == <<x>>
IsSome(o) == Len(o) = 1
IsNone(o) == Len(o) = 0
Unwrap(o) == o[1]

Ok(x) == [ok |-> TRUE, v |-> x]
Err(x) == [ok |-> FALSE, v |-> x]

----------------------------------------------------------------------------
(* Strings *)

\* str::contains(c)
Contains(s, c) == \E i \in 1..Len(s) : s[i] = c

\* a format string without the separator
FormatPathNoSeparator(a, b) == a \o b

\* format!("{}/{}", a, b)
FormatPath(a, b) == a \o <<"/">> \o b

Str_a == <<"a">>
Str_b == <<"b">>
Str_empty == <<>>
Str_a_slash_b == <<"a", "/", "b">>
Str_slash_a == <<"/", "a">>

----------------------------------------------------------------------------
(* Nodes: node.rs *)

Variants == {"Container", "Get", "Set", "GetSet"}

\* address_valid that looks at the first character only
address_valid_leading(address) ==
    IF address # <<>> /\ Head(address) = "/" THEN Err("invalid address") ELSE Ok(address)

address_valid(address) ==
    IF Contains(address, "/") THEN Err("invalid address") ELSE Ok(address)

\* Container::new / Get::new / Set::new / GetSet::new: the four constructors
\* differ only in the variant they build; a Container has neither parameters
\* nor a handler.
NodeNew(variant, address, description, params, handler) ==
    LET a == address_valid(address) IN
    IF ~a.ok THEN Err(a.v)
    ELSE Ok([variant |-> variant,
             address |-> a.v,
             description |-> description,
             params |-> IF variant = "Container" THEN <<>> ELSE params,
             handler |-> IF variant \in {"Set", "GetSet"} THEN handler ELSE None])

----------------------------------------------------------------------------
(* petgraph::StableGraph<NodeWrapper, ()> as root.rs uses it.  A graph is   *)
(* nodes: slot index -> Option<NodeWrapper> (vacant slots stay in place),   *)
(* free_node: the list of vacant slots, most recently vacated first,        *)
(* next: slot index -> the outgoing neighbours, most recently added edge    *)
(* first.                                                                   *)

node_bound(g) == Cardinality(DOMAIN g.nodes)

\* StableGraph::node_weight
node_weight(g, index) ==
    IF index \in DOMAIN g.nodes THEN g.nodes[index] ELSE None

\* StableGraph::add_node: a vacant slot is reused before a new one is made
graph_add_node(g, weight) ==
    IF g.free_node # <<>>
    THEN LET index == Head(g.free_node) IN
         [g |-> [g EXCEPT !.nodes[index] = Some(weight),
                          !.free_node = Tail(g.free_node)],
          index |-> index]
    ELSE LET index == node_bound(g) IN
         [g |-> [g EXCEPT !.nodes = [i \in 0..index |->
                                        IF i = index THEN Some(weight) ELSE g.nodes[i]],
                          !.next = [i \in 0..index |->
                                        IF i = index THEN <<>> ELSE g.next[i]]],
          index |-> index]

\* StableGraph::add_edge: the new edge becomes the head of a's outgoing list
graph_add_edge(g, a, b) ==
    [g EXCEPT !.next[a] = <<b>> \o g.next[a]]

\* StableGraph::neighbors(index).detach() followed by next_node until None:
\* the outgoing neighbours in list order; none for a vacant slot
neighbors(g, index) ==
    IF IsSome(node_weight(g, index)) THEN g.next[index] ELSE <<>>

\* the sequence s without the entries equal to x
Without(s, x) == SelectSeq(s, LAMBDA y : y # x)

\* StableGraph::remove_node: None for a vacant slot; otherwise the slot is
\* vacated, every edge from or to it is removed and the slot heads the free
\* list
graph_remove_node(g, index) ==
    LET w == node_weight(g, index) IN
    IF IsNone(w) THEN [g |-> g, weight |-> None]
    ELSE [g |-> [nodes |-> [g.nodes EXCEPT ![index] = None],
                 free_node |-> <<index>> \o g.free_node,
                 next |-> [i \in DOMAIN g.next |->
                              IF i = index THEN <<>> ELSE Without(g.next[i], index)]],
          weight |-> w]

----------------------------------------------------------------------------
(* The namespace-change channel: std::sync::mpsc::sync_channel *)

PathAdded(p) == [change |-> "PathAdded", path |-> p]
PathRemoved(p) == [change |-> "PathRemoved", path |-> p]

\* try_send on a channel without a capacity
try_send_unbounded(ch, msg) ==
    IF ch.connected THEN [ch EXCEPT !.queue = Append(ch.queue, msg)] ELSE ch

\* SyncSender::try_send: the message is queued unless the receiver is gone
\* or the buffer is full, and then it is dropped
try_send(ch, msg) ==
    IF ch.connected /\ Len(ch.queue) < NS_CHANGE_LEN
    THEN [ch EXCEPT !.queue = Append(ch.queue, msg)]
    ELSE ch

\* if let Some(ns_change_send) = &self.ns_change_send { let _ = try_send(..) }
ns_send(r, ch, msg) ==
    IF IsSome(r.ns_change_send) THEN try_send(ch, msg) ELSE ch

----------------------------------------------------------------------------
(* RootInner: root.rs *)

\* RootInner::new
RootInnerNew(name) ==
    [name |-> name,
     graph |-> [nodes |-> [i \in {0} |->
                    Some([full_path |-> <<"/">>,
                          node |-> [variant |-> "Container",
                                    address |-> Str_empty,
                                    description |-> Some("root node"),
                                    params |-> <<>>,
                                    handler |-> None]])],
                free_node |-> <<>>,
                next |-> [i \in {0} |-> <<>>]],
     root |-> 0,
     index_map |-> [p \in {<<"/">>} |-> 0],
     ns_change_send |-> None]

\* HashMap::insert
MapInsert(m, k, v) == [x \in DOMAIN m \cup {k} |-> IF x = k THEN v ELSE m[x]]

\* a remove that leaves the entry in place
MapRemove_noop(m, k) == m

\* HashMap::remove
MapRemove(m, k) == [x \in DOMAIN m \ {k} |-> m[x]]

\* HashMap::get
MapGet(m, k) == IF k \in DOMAIN m THEN Some(m[k]) ELSE None

\* add_node that attaches the node to the root when the parent is not in
\* the graph
add_node_orphan_to_root(r, ch, node, parent) ==
    LET pw == IF IsSome(parent) THEN node_weight(r.graph, Unwrap(parent)) ELSE None
        parent_index == IF IsSome(pw) THEN Unwrap(parent) ELSE r.root
        prefix == IF IsSome(pw) THEN Unwrap(pw).full_path ELSE Str_empty
        full_path == FormatPath(prefix, node.address)
        added == graph_add_node(r.graph, [full_path |-> full_path, node |-> node])
        index == added.index
    IN [root |-> [r EXCEPT !.graph = graph_add_edge(added.g, parent_index, index),
                           !.index_map = MapInsert(r.index_map, full_path, index)],
        chan |-> ns_send(r, ch, PathAdded(full_path)),
        result |-> Ok(index)]

\* add_node that gives up when its event cannot be sent
add_node_needs_room(r, ch, node, parent) ==
    IF IsSome(r.ns_change_send) /\ try_send(ch, PathAdded(<<>>)) = ch
    THEN [root |-> r, chan |-> ch, result |-> Err(<<node, "channel full">>)]
    ELSE add_node_orphan_to_root(r, ch, node, parent)

\* RootInner::add_node; parent is an Option<NodeHandle>
add_node(r, ch, node, parent) ==
    LET parent_index == IF IsSome(parent) THEN Unwrap(parent) ELSE r.root
        pw == node_weight(r.graph, parent_index)
    IN
    IF IsSome(parent) /\ IsNone(pw)
    THEN [root |-> r, chan |-> ch, result |-> Err(<<node, "parent not in graph">>)]
    ELSE LET prefix == IF IsSome(parent) THEN Unwrap(pw).full_path ELSE Str_empty
             full_path == FormatPath(prefix, node.address)
             added == graph_add_node(r.graph, [full_path |-> full_path, node |-> node])
             index == added.index
         IN [root |-> [r EXCEPT !.graph = graph_add_edge(added.g, parent_index, index),
                                !.index_map = MapInsert(r.index_map, full_path, index)],
             chan |-> ns_send(r, ch, PathAdded(full_path)),
             result |-> Ok(index)]

\* RootInner::rm_node.  st is [root, chan, v, ids]: the tree, the channel,
\* the vector of removed nodes and (for the record) their indices. The
\* children are walked in the order of the neighbour list as it was when
\* the walk started: the walker reads the next edge before the child it
\* returns is removed, and removing that child leaves the next edge alone.
RECURSIVE rm_walk(_, _)
RECURSIVE rm_children(_, _)

\* rm_node that takes the node out before it walks the children
rm_walk_parent_first(st, index) ==
    LET children == neighbors(st.root.graph, index)
        removed == graph_remove_node(st.root.graph, index)
    IN
    IF IsSome(removed.weight)
    THEN LET node == Unwrap(removed.weight) IN
         rm_children([root |-> [st.root EXCEPT !.graph = removed.g,
                                    !.index_map = MapRemove(st.root.index_map, node.full_path)],
                      chan |-> ns_send(st.root, st.chan, PathRemoved(node.full_path)),
                      v |-> Append(st.v, node.node),
                      ids |-> Append(st.ids, index),
                      ok |-> TRUE], children)
    ELSE [st EXCEPT !.ok = FALSE]

rm_walk(st, index) ==
    LET sub == rm_children(st, neighbors(st.root.graph, index))
        removed == graph_remove_node(sub.root.graph, index)
    IN
    IF IsSome(removed.weight)
    THEN LET node == Unwrap(removed.weight) IN
         [root |-> [sub.root EXCEPT !.graph = removed.g,
                                    !.index_map = MapRemove(sub.root.index_map, node.full_path)],
          chan |-> ns_send(sub.root, sub.chan, PathRemoved(node.full_path)),
          v |-> Append(sub.v, node.node),
          ids |-> Append(sub.ids, index),
          ok |-> TRUE]
    ELSE [sub EXCEPT !.ok = FALSE]

rm_children(st, children) ==
    IF children = <<>> THEN st
    ELSE rm_children(rm_walk(st, Head(children)), Tail(children))

\* rm_node that takes the removal of an absent node for a success
rm_node_idempotent(r, ch, handle) ==
    LET w == rm_walk([root |-> r, chan |-> ch, v |-> <<>>, ids |-> <<>>, ok |-> TRUE],
                     handle)
    IN [root |-> w.root, chan |-> w.chan, ids |-> w.ids, result |-> Ok(w.v)]

rm_node(r, ch, handle) ==
    LET w == rm_walk([root |-> r, chan |-> ch, v |-> <<>>, ids |-> <<>>, ok |-> TRUE],
                     handle)
    IN [root |-> w.root, chan |-> w.chan, ids |-> w.ids,
        result |-> IF w.ok THEN Ok(w.v)
                   ELSE Err(<<handle, "node at handle not in graph">>)]

\* RootInner::add_node statement by statement: the tree after
\* graph.add_node, after index_map.insert and after graph.add_edge; none
\* when the parent is not in the graph
add_node_steps(r, node, parent) ==
    LET parent_index == IF IsSome(parent) THEN Unwrap(parent) ELSE r.root
        pw == node_weight(r.graph, parent_index)
    IN
    IF IsSome(parent) /\ IsNone(pw) THEN <<>>
    ELSE LET prefix == IF IsSome(parent) THEN Unwrap(pw).full_path ELSE Str_empty
             full_path == FormatPath(prefix, node.address)
             added == graph_add_node(r.graph, [full_path |-> full_path, node |-> node])
             s1 == [r EXCEPT !.graph = added.g]
             s2 == [s1 EXCEPT !.index_map = MapInsert(r.index_map, full_path, added.index)]
             s3 == [s2 EXCEPT !.graph = graph_add_edge(added.g, parent_index, added.index)]
         IN <<s1, s2, s3>>

\* RootInner::rm_node statement by statement: for every node taken out, in
\* the order ids in which rm_node takes them out, the tree after
\* graph.remove_node and after index_map.remove
RECURSIVE rm_node_steps(_, _)
rm_node_steps(r, ids) ==
    IF Len(ids) = 0 THEN <<>>
    ELSE LET removed == graph_remove_node(r.graph, Head(ids))
             s1 == [r EXCEPT !.graph = removed.g]
             s2 == [s1 EXCEPT !.index_map =
                                 MapRemove(r.index_map, Unwrap(removed.weight).full_path)]
         IN <<s1, s2>> \o rm_node_steps(s2, Tail(ids))

\* RootInner::handle_to_path
handle_to_path(r, handle) ==
    LET w == node_weight(r.graph, handle) IN
    IF IsSome(w) THEN Some(Unwrap(w).full_path) ELSE None

\* RootInner::with_node_at_handle: what the closure is given
with_node_at_handle(r, handle) == node_weight(r.graph, handle)

----------------------------------------------------------------------------
(* Root: the RwLock around RootInner.  A lock is [poisoned, writer]: a     *)
(* panic while a write guard is held poisons it, a panic under a read      *)
(* guard does not; writer is the thread holding the write guard, if any.   *)

RwLockNew == [poisoned |-> FALSE, writer |-> None, readers |-> {}]

\* Root::write_locked
write_locked(l) == IF l.poisoned THEN Err("poisoned lock") ELSE Ok("guard")

\* Root::read_locked
read_locked(l) == IF l.poisoned THEN Err("poisoned lock") ELSE Ok("guard")

\* RwLock::write by thread t, once no other guard is held
write_lock(l, t) == [l EXCEPT !.writer = Some(t)]

\* a write guard that is never released
write_unlock_leak(l) == l

\* the drop of the write guard
write_unlock(l) == [l EXCEPT !.writer = None]

\* RwLock::read returns once no write guard is held
can_read(l) == IsNone(l.writer)

\* RwLock::write that does not wait for the read guards to be dropped
can_write_with_readers(l) == IsNone(l.writer)

\* RwLock::write returns once no guard of either kind is held
can_write(l) == IsNone(l.writer) /\ l.readers = {}

\* RwLock::read by thread t, and the drop of its read guard
read_lock(l, t) == [l EXCEPT !.readers = @ \cup {t}]
read_unlock(l, t) == [l EXCEPT !.readers = @ \ {t}]

\* Root::add_node
Root_add_node(l, r, ch, node, parent) ==
    IF write_locked(l).ok
    THEN add_node(r, ch, node, parent)
    ELSE [root |-> r, chan |-> ch, result |-> Err(<<node, write_locked(l).v>>)]

\* Root::rm_node
Root_rm_node(l, r, ch, handle) ==
    IF write_locked(l).ok
    THEN rm_node(r, ch, handle)
    ELSE [root |-> r, chan |-> ch, ids |-> <<>>,
          result |-> Err(<<handle, write_locked(l).v>>)]

----------------------------------------------------------------------------
(* Parameters and OSC arguments: param.rs, value.rs, rosc::OscType.  A      *)
(* Float, Double, String or Char value is a token (a TLA+ string): the      *)
(* write path moves such values and never computes on them.                 *)

\* the kinds of ParamGet / ParamSet / ParamGetSet
ParamKinds == {"Int", "Float", "String", "Time", "Long", "Double", "Char",
               "Midi", "Bool", "Array"}

\* the variants of rosc::OscType
OscTypes == ParamKinds \cup {"Blob", "Color", "Nil", "Inf"}

OscArg(type, value) == [type |-> type, value |-> value]

\* Value<V> as ValueBuilder builds it: the storage behind `value` (an
\* Atomic<T> or, for a ParamSet, possibly the unit type), clip mode, range
\* and unit
Param(kind, value, store, clip_mode, range, unit) ==
    [kind |-> kind, value |-> value, store |-> store,
     clip_mode |-> clip_mode, range |-> range, unit |-> unit]

RangeNone == [range |-> "None"]
RangeMinMax(min, max) == [range |-> "MinMax", min |-> min, max |-> max]

\* Get::get on the storage
value_get(p) == p.value

\* Set::set on the storage: Atomic<T> stores the value, () does nothing;
\* neither looks at the range or the clip mode
value_set(p, v) ==
    IF p.store = "Unit" THEN p ELSE [p EXCEPT !.value = v]

\* the OscType variants impl_osc_update! has no arm for
Unimplemented == {"Blob", "Color", "Array", "Nil", "Inf"}

\* one turn of the loop over params.iter().zip(args) for an argument that
\* has an arm: the value is set if the parameter is of the argument's kind
write_arg(p, a) ==
    IF p.kind # a.type THEN p
    ELSE IF a.type = "Midi"
    THEN value_set(p, <<a.value.port, a.value.status, a.value.data1, a.value.data2>>)
    ELSE value_set(p, a.value)

Min(a, b) == IF a <= b THEN a ELSE b

\* the loop over params.iter().zip(args) from position i on: the
\* parameters as the loop leaves them, and whether it ran into unimplemented!()
RECURSIVE osc_update_zip(_, _, _)
osc_update_zip(params, args, i) ==
    IF i > Min(Len(params), Len(args))
    THEN [params |-> params, panicked |-> FALSE]
    ELSE IF args[i].type \in Unimplemented
    THEN [params |-> params, panicked |-> TRUE]
    ELSE osc_update_zip([params EXCEPT ![i] = write_arg(params[i], args[i])], args, i + 1)

\* An OscUpdate handler is the application's code.  Two are modelled: one
\* that answers every call with the same Option<OscWriteCallback> (the
\* handler of /foo/bar in examples/server.rs answers None), and the handler
\* of /foo/add in examples/server.rs.  An OscWriteCallback is modelled by
\* the calls it makes on the OscQueryGraph, in order.
Handler(handler, cb, parent) == [handler |-> handler, cb |-> cb, parent |-> parent]
ConstHandler(cb) == Handler("const", cb, None)
AddHandler(parent) == Handler("add", None, parent)

\* OscUpdateFunc::osc_update: the call of the handler's function.  The add
\* handler indexes params[0], takes a string for the name of a Get node
\* with one Int parameter and returns the callback that adds it under
\* parent if Get::new accepted the name.
handler_osc_update(hd, args, time, handle) ==
    IF hd.handler = "const" THEN [cb |-> hd.cb, panicked |-> FALSE]
    ELSE IF Len(args) = 0 THEN [cb |-> None, panicked |-> TRUE]
    ELSE IF args[1].type # "String" THEN [cb |-> None, panicked |-> FALSE]
    ELSE LET n == NodeNew("Get", args[1].value, None,
                          <<Param("Int", 1, "Atomic", "none", [range |-> "None"], None)>>,
                          None)
         IN [cb |-> Some(IF n.ok
                         THEN <<[call |-> "add_node", node |-> n.v, parent |-> hd.parent]>>
                         ELSE <<>>),
             panicked |-> FALSE]

\* impl_osc_update!(Set, ParamSet) / (GetSet, ParamGetSet): the handler is
\* called first, then the parameters are written.  calls is the record of
\* the handler calls made: the node's handle and the time passed.
params_osc_update(n, args, time, handle) ==
    LET hc == IF IsSome(n.handler)
              THEN handler_osc_update(Unwrap(n.handler), args, time, handle)
              ELSE [cb |-> None, panicked |-> FALSE]
        calls == IF IsSome(n.handler)
                 THEN <<[handle |-> handle, time |-> time]>>
                 ELSE <<>>
        z == osc_update_zip(n.params, args, 1)
    IN IF hc.panicked
       THEN [node |-> n, cb |-> None, panicked |-> TRUE, calls |-> calls]
       ELSE [node |-> [n EXCEPT !.params = z.params],
             cb |-> IF z.panicked THEN None ELSE hc.cb,
             panicked |-> z.panicked,
             calls |-> calls]

\* osc_update that takes a Get node for a writable one
osc_update_get_writable(n, args, time, handle) ==
    IF n.variant = "Container"
    THEN [node |-> n, cb |-> None, panicked |-> FALSE, calls |-> <<>>]
    ELSE params_osc_update(n, args, time, handle)

\* osc_update that looks at no variant
osc_update_all_writable(n, args, time, handle) ==
    params_osc_update(n, args, time, handle)

\* impl OscUpdate for Node
osc_update(n, args, time, handle) ==
    IF n.variant \in {"Container", "Get"}
    THEN [node |-> n, cb |-> None, panicked |-> FALSE, calls |-> <<>>]
    ELSE params_osc_update(n, args, time, handle)

\* RootInner::with_node_at_path: what the closure is given
with_node_at_path(r, path) ==
    LET index == MapGet(r.index_map, path) IN
    IF IsSome(index) /\ IsSome(node_weight(r.graph, Unwrap(index)))
    THEN Some(<<Unwrap(node_weight(r.graph, Unwrap(index))), Unwrap(index)>>)
    ELSE None

\* handle_osc_msg that passes no time on to the node
handle_osc_msg_no_time(r, msg, time) ==
    LET ni == with_node_at_path(r, msg.addr) IN
    IF IsSome(ni)
    THEN LET index == Unwrap(ni)[2]
             u == osc_update(Unwrap(ni)[1].node, msg.args, None, index)
         IN [root |-> [r EXCEPT !.graph.nodes[index] =
                                    Some([Unwrap(ni)[1] EXCEPT !.node = u.node])],
             cb |-> u.cb,
             panicked |-> u.panicked,
             calls |-> u.calls]
    ELSE [root |-> r, cb |-> None, panicked |-> FALSE, calls |-> <<>>]

\* RootInner::handle_osc_msg.  The parameter storage is shared (Arc) and
\* written through &self: the values are kept in the node's record here.
handle_osc_msg(r, msg, time) ==
    LET ni == with_node_at_path(r, msg.addr) IN
    IF IsSome(ni)
    THEN LET index == Unwrap(ni)[2]
             u == osc_update(Unwrap(ni)[1].node, msg.args, time, index)
         IN [root |-> [r EXCEPT !.graph.nodes[index] =
                                    Some([Unwrap(ni)[1] EXCEPT !.node = u.node])],
             cb |-> u.cb,
             panicked |-> u.panicked,
             calls |-> u.calls]
    ELSE [root |-> r, cb |-> None, panicked |-> FALSE, calls |-> <<>>]

OscMessage(addr, args) == [packet |-> "Message", addr |-> addr, args |-> args]
OscBundle(timetag, content) ==
    [packet |-> "Bundle", timetag |-> timetag, content |-> content]

\* the closure a bundle returns: for cb in callbacks.into_iter() { (cb)(root) }
RECURSIVE callbacks_in_order(_)
callbacks_in_order(callbacks) ==
    IF Len(callbacks) = 0 THEN <<>>
    ELSE Head(callbacks) \o callbacks_in_order(Tail(callbacks))

\* RootInner::handle_osc_packet_inner.  The callback a bundle returns runs
\* the callbacks of its packets in order.  st is [root, callbacks,
\* panicked, calls]; a panic unwinds out of the whole walk.
RECURSIVE handle_osc_packet_inner(_, _, _)
RECURSIVE handle_bundle_content(_, _, _)

handle_osc_packet_inner(r, packet, time) ==
    IF packet.packet = "Message"
    THEN handle_osc_msg(r, packet, time)
    ELSE LET b == handle_bundle_content([root |-> r, callbacks |-> <<>>,
                                         panicked |-> FALSE, calls |-> <<>>],
                                        packet.content, Some(packet.timetag))
         IN [root |-> b.root,
             cb |-> IF b.panicked \/ Len(b.callbacks) = 0 THEN None
                    ELSE Some(callbacks_in_order(b.callbacks)),
             panicked |-> b.panicked,
             calls |-> b.calls]

handle_bundle_content(st, content, time) ==
    IF Len(content) = 0 \/ st.panicked THEN st
    ELSE LET h == handle_osc_packet_inner(st.root, Head(content), time) IN
         handle_bundle_content(
             [root |-> h.root,
              callbacks |-> IF IsSome(h.cb) THEN Append(st.callbacks, Unwrap(h.cb))
                            ELSE st.callbacks,
              panicked |-> h.panicked,
              calls |-> st.calls \o h.calls],
             Tail(content), time)

\* a callback that runs its calls last to first
RECURSIVE run_callback_reversed(_, _, _)
run_callback_reversed(r, ch, calls) ==
    IF Len(calls) = 0 THEN [root |-> r, chan |-> ch, panicked |-> FALSE]
    ELSE LET c == calls[Len(calls)]
             rest == SubSeq(calls, 1, Len(calls) - 1)
         IN
         IF c.call = "panic"
         THEN [root |-> r, chan |-> ch, panicked |-> TRUE]
         ELSE IF c.call = "add_node"
         THEN LET a == add_node(r, ch, c.node, c.parent) IN
              run_callback_reversed(a.root, a.chan, rest)
         ELSE LET a == rm_node(r, ch, c.handle) IN
              run_callback_reversed(a.root, a.chan, rest)

\* (cb)(root.deref_mut()): the calls of a callback on the OscQueryGraph, in
\* order; what they return is the callback's own business.  The callback is
\* the application's code: it may panic, which is the call "panic".
RECURSIVE run_callback(_, _, _)
run_callback(r, ch, calls) ==
    IF Len(calls) = 0 THEN [root |-> r, chan |-> ch, panicked |-> FALSE]
    ELSE LET c == Head(calls) IN
         IF c.call = "panic"
         THEN [root |-> r, chan |-> ch, panicked |-> TRUE]
         ELSE IF c.call = "add_node"
         THEN LET a == add_node(r, ch, c.node, c.parent) IN
              run_callback(a.root, a.chan, Tail(calls))
         ELSE LET a == rm_node(r, ch, c.handle) IN
              run_callback(a.root, a.chan, Tail(calls))

\* RootInner::handle_osc_packet: the walk under the read lock, then the
\* callback, if one was returned, under the write lock.  A poisoned lock
\* skips the step that needs it; a panic of the callback poisons the lock.
handle_osc_packet(l, r, ch, packet, time) ==
    LET h == IF read_locked(l).ok THEN handle_osc_packet_inner(r, packet, time)
             ELSE [root |-> r, cb |-> None, panicked |-> FALSE, calls |-> <<>>]
    IN
    IF IsSome(h.cb) /\ write_locked(l).ok
    THEN LET c == run_callback(h.root, ch, Unwrap(h.cb)) IN
         [root |-> c.root, chan |-> c.chan,
          lock |-> [l EXCEPT !.poisoned = c.panicked],
          panicked |-> c.panicked,
          calls |-> h.calls]
    ELSE [root |-> h.root, chan |-> ch, lock |-> l, panicked |-> h.panicked,
          calls |-> h.calls]

\* format!("{:02X}", n) for a u8
HexDigits == <<"0", "1", "2", "3", "4", "5", "6", "7",
               "8", "9", "A", "B", "C", "D", "E", "F">>
Hex2(n) == <<HexDigits[(n \div 16) + 1], HexDigits[(n % 16) + 1]>>

\* OscTypeWrapper::serialize: the JSON value of an OscType.  A Time is the
\* number (sec << 32) | frac, kept as its two base-2^32 digits.
RECURSIVE osc_type_json(_)
osc_type_json(a) ==
    CASE a.type \in {"Int", "Long", "Float", "Double"} -> [json |-> "number", v |-> a.value]
      [] a.type \in {"String", "Char"} -> [json |-> "string", v |-> a.value]
      [] a.type = "Time" -> [json |-> "number", v |-> <<a.value[1], a.value[2]>>]
      [] a.type = "Bool" -> [json |-> "bool", v |-> a.value]
      [] a.type = "Color" ->
           [json |-> "string",
            v |-> <<"#">> \o Hex2(a.value.red) \o Hex2(a.value.green)
                        \o Hex2(a.value.blue) \o Hex2(a.value.alpha)]
      [] a.type = "Array" ->
           [json |-> "array", v |-> [i \in 1..Len(a.value) |-> osc_type_json(a.value[i])]]
      [] OTHER -> [json |-> "null"]

\* impl_value_ser!: the OscType a parameter's value is read as
param_osc_type(p) ==
    IF p.kind = "Midi"
    THEN LET v == value_get(p) IN
         OscArg("Midi", [port |-> v[1], status |-> v[2], data1 |-> v[3], data2 |-> v[4]])
    ELSE OscArg(p.kind, value_get(p))

\* NodeValueWrapper::serialize: the VALUE attribute of a node
node_value(n) ==
    IF n.variant \in {"Set", "Container"} THEN [json |-> "null"]
    ELSE [json |-> "array",
          v |-> [i \in 1..Len(n.params) |-> osc_type_json(param_osc_type(n.params[i]))]]

\* RootInner::serialize_node with NodeQueryParam::Value, as the HTTP service
\* answers GET <path>?VALUE: the object {"VALUE": ..} for a Get or GetSet
\* node, null for another node, None when no node is at the path
serialize_value(r, path) ==
    LET ni == with_node_at_path(r, path) IN
    IF IsNone(ni) THEN None
    ELSE LET n == Unwrap(ni)[1].node IN
         IF n.variant \in {"Get", "GetSet"}
         THEN Some([json |-> "object", v |-> [VALUE |-> node_value(n)]])
         ELSE Some([json |-> "null"])

----------------------------------------------------------------------------
(* JSON rendering: the Serialize impls of root.rs, node.rs, param.rs and    *)
(* value.rs as serde_json::to_value collects them (service/http.rs:190,     *)
(* root.rs:651).  A JSON object is a function from its keys: the entries of *)
(* a serialize_map go into a serde_json::Map one insert after another, and  *)
(* an insert under a key that is already there replaces its value.          *)

JsonNull == [json |-> "null"]
JsonNumber(v) == [json |-> "number", v |-> v]
JsonString(s) == [json |-> "string", v |-> s]
JsonArray(elems) == [json |-> "array", v |-> elems]
JsonObject(m) == [json |-> "object", v |-> m]

\* SerializeMap of serde_json's value serializer: serialize_entry inserts
\* <<key, value>> into the map, end() gives the object
RECURSIVE serialize_map(_)
serialize_map(entries) ==
    IF Len(entries) = 0 THEN <<>>
    ELSE LET e == entries[Len(entries)] IN
         MapInsert(serialize_map(SubSeq(entries, 1, Len(entries) - 1)), e[1], e[2])

\* impl Serialize for Access, on Node::access
node_access(n) ==
    CASE n.variant = "Container" -> 0
      [] n.variant = "Get" -> 1
      [] n.variant = "Set" -> 2
      [] n.variant = "GetSet" -> 3

\* OSCTypeStr for OscType
RECURSIVE osc_type_str(_)
RECURSIVE osc_type_str_all(_)
osc_type_str(a) ==
    CASE a.type = "Int" -> <<"i">>
      [] a.type = "Float" -> <<"f">>
      [] a.type = "String" -> <<"s">>
      [] a.type = "Blob" -> <<"b">>
      [] a.type = "Time" -> <<"t">>
      [] a.type = "Long" -> <<"h">>
      [] a.type = "Double" -> <<"d">>
      [] a.type = "Char" -> <<"c">>
      [] a.type = "Color" -> <<"r">>
      [] a.type = "Midi" -> <<"m">>
      [] a.type = "Bool" -> IF a.value THEN <<"T">> ELSE <<"F">>
      [] a.type = "Array" -> <<"[">> \o osc_type_str_all(a.value) \o <<"]">>
      [] a.type = "Nil" -> <<"N">>
      [] a.type = "Inf" -> <<"I">>

osc_type_str_all(content) ==
    IF Len(content) = 0 THEN <<>>
    ELSE osc_type_str(Head(content)) \o osc_type_str_all(Tail(content))

\* OSCTypeStr for ParamGet / ParamSet / ParamGetSet: a Bool and an Array
\* are read for their tag unless the parameter is a ParamSet
param_osc_type_str(variant, p) ==
    CASE p.kind = "Bool" ->
           osc_type_str(OscArg("Bool", IF variant = "Set" THEN FALSE ELSE value_get(p)))
      [] p.kind = "Array" ->
           osc_type_str(OscArg("Array", IF variant = "Set" THEN <<>> ELSE value_get(p)))
      [] OTHER -> osc_type_str(OscArg(p.kind, "default"))

\* Node::type_string
RECURSIVE type_string_fold(_, _)
type_string_fold(variant, params) ==
    IF Len(params) = 0 THEN <<>>
    ELSE type_string_fold(variant, SubSeq(params, 1, Len(params) - 1))
             \o param_osc_type_str(variant, params[Len(params)])

type_string(n) ==
    IF n.variant = "Container" THEN None
    ELSE Some(type_string_fold(n.variant, n.params))

\* impl Serialize for Range<T>
range_json(rg) ==
    CASE rg.range = "None" -> JsonObject(<<>>)
      [] rg.range = "MinMax" ->
           JsonObject(serialize_map(<<<<"MIN", JsonNumber(rg.min)>>,
                                      <<"MAX", JsonNumber(rg.max)>>>>))

\* impl_range_ser!
param_range(p) ==
    CASE p.kind = "Midi" -> JsonNull
      [] p.kind = "Array" -> JsonArray(<<range_json(RangeNone)>>)
      [] OTHER -> range_json(p.range)

\* impl_clip_mode_ser!
param_clip_mode(p) ==
    CASE p.kind = "Midi" -> JsonNull
      [] p.kind = "Array" -> JsonArray(<<JsonString("none")>>)
      [] OTHER -> JsonString(p.clip_mode)

\* impl_unit_ser!
param_unit(p) ==
    CASE p.kind = "Midi" -> JsonNull
      [] p.kind = "Array" -> JsonArray(<<JsonNull>>)
      [] OTHER -> IF IsSome(p.unit) THEN JsonString(Unwrap(p.unit)) ELSE JsonNull

\* NodeRangeWrapper / NodeClipModeWrapper / NodeUnitWrapper
node_range(n) ==
    IF n.variant = "Container" THEN JsonNull
    ELSE JsonArray([i \in 1..Len(n.params) |-> param_range(n.params[i])])

node_clip_mode(n) ==
    IF n.variant = "Container" THEN JsonNull
    ELSE JsonArray([i \in 1..Len(n.params) |-> param_clip_mode(n.params[i])])

node_unit(n) ==
    IF n.variant = "Container" THEN JsonNull
    ELSE JsonArray([i \in 1..Len(n.params) |-> param_unit(n.params[i])])

\* impl Serialize for Option<String>
option_string_json(o) == IF IsSome(o) THEN JsonString(Unwrap(o)) ELSE JsonNull

\* the names a NodeQueryParam deserializes from (rename_all = "UPPERCASE")
NodeQueryParams == {"VALUE", "TYPE", "RANGE", "CLIPMODE", "ACCESS", "DESCRIPTION", "UNIT"}

\* impl Serialize for NodeSerializeWrapper and NodeSerializeContentsWrapper:
\* the node in slot index, in full (param None) or for one attribute
RECURSIVE NodeSerializeWrapper(_, _, _)
RECURSIVE NodeSerializeContentsWrapper(_, _)
NodeSerializeWrapper(g, index, param) ==
    LET w == Unwrap(node_weight(g, index))
        n == w.node
        leaf == n.variant # "Container"
    IN
    CASE IsNone(param) ->
           JsonObject(serialize_map(
               <<<<"ACCESS", JsonNumber(node_access(n))>>>>
               \o (IF IsSome(n.description)
                   THEN <<<<"DESCRIPTION", JsonString(Unwrap(n.description))>>>>
                   ELSE <<>>)
               \o <<<<"FULL_PATH", JsonString(w.full_path)>>>>
               \o (IF n.variant \in {"Get", "GetSet"}
                   THEN <<<<"VALUE", node_value(n)>>>>
                   ELSE <<>>)
               \o (IF ~leaf
                   THEN <<<<"CONTENTS", NodeSerializeContentsWrapper(g, neighbors(g, index))>>>>
                   ELSE (IF IsSome(type_string(n))
                         THEN <<<<"TYPE", JsonString(Unwrap(type_string(n)))>>>>
                         ELSE <<>>)
                        \o <<<<"RANGE", node_range(n)>>,
                             <<"CLIPMODE", node_clip_mode(n)>>,
                             <<"UNIT", node_unit(n)>>>>)))
      [] param = Some("ACCESS") ->
           JsonObject(serialize_map(<<<<"ACCESS", JsonNumber(node_access(n))>>>>))
      [] param = Some("DESCRIPTION") ->
           JsonObject(serialize_map(<<<<"DESCRIPTION", option_string_json(n.description)>>>>))
      [] param = Some("VALUE") ->
           IF n.variant \in {"Get", "GetSet"}
           THEN JsonObject(serialize_map(<<<<"VALUE", node_value(n)>>>>))
           ELSE JsonNull
      [] param = Some("RANGE") ->
           IF leaf THEN JsonObject(serialize_map(<<<<"RANGE", node_range(n)>>>>))
           ELSE JsonNull
      [] param = Some("CLIPMODE") ->
           IF leaf THEN JsonObject(serialize_map(<<<<"CLIPMODE", node_clip_mode(n)>>>>))
           ELSE JsonNull
      [] param = Some("TYPE") ->
           IF leaf
           THEN JsonObject(serialize_map(<<<<"TYPE", option_string_json(type_string(n))>>>>))
           ELSE JsonNull
      [] param = Some("UNIT") ->
           IF leaf THEN JsonObject(serialize_map(<<<<"UNIT", node_unit(n)>>>>))
           ELSE JsonNull

\* one entry per neighbour that has a weight, keyed by its address
NodeSerializeContentsWrapper(g, nbrs) ==
    LET live == SelectSeq(nbrs, LAMBDA index : IsSome(node_weight(g, index))) IN
    JsonObject(serialize_map(
        [i \in 1..Len(live) |->
            <<Unwrap(node_weight(g, live[i])).node.address,
              NodeSerializeWrapper(g, live[i], None)>>]))

\* RootInner::serialize_node: what the closure f is given, rendered; None
\* when the path is not in index_map or its slot is vacant
RootInner_serialize_node(r, path, param) ==
    LET index == MapGet(r.index_map, path) IN
    IF IsSome(index) /\ IsSome(node_weight(r.graph, Unwrap(index)))
    THEN Some(NodeSerializeWrapper(r.graph, Unwrap(index), param))
    ELSE None

\* impl Serialize for RootInner
RootInner_serialize(r) == Unwrap(RootInner_serialize_node(r, <<"/">>, None))

----------------------------------------------------------------------------
(* Root: the calls that read.  A call that panics gives Panic(message),    *)
(* one that returns gives Return(value).                                    *)

Panic(msg) == [panicked |-> TRUE, msg |-> msg]
Return(x) == [panicked |-> FALSE, v |-> x]

\* Root::name
Root_name(l, r) == IF read_locked(l).ok THEN r.name ELSE None

\* Root::handle_to_path
Root_handle_to_path(l, r, handle) ==
    IF read_locked(l).ok THEN Return(handle_to_path(r, handle))
    ELSE Panic("failed to read lock")

\* Root::serialize_node
Root_serialize_node(l, r, path, param) ==
    IF read_locked(l).ok THEN Return(RootInner_serialize_node(r, path, param))
    ELSE Panic("failed to read lock")

\* impl Serialize for Root
Root_serialize(l, r) ==
    IF ~read_locked(l).ok THEN Panic("failed to read lock")
    ELSE IF IsNone(RootInner_serialize_node(r, <<"/">>, None))
    THEN Panic("root must be in graph")
    ELSE Return(RootInner_serialize(r))

----------------------------------------------------------------------------
(* The HTTP service: service/http.rs                                        *)

\* impl Serialize for PathSerializeWrapper, through serde_json::to_value
PathSerializeWrapper(l, r, path, param) ==
    LET s == Root_serialize_node(l, r, path, param) IN
    IF s.panicked THEN s
    ELSE IF IsSome(s.v) THEN Return(Ok(Unwrap(s.v)))
    ELSE Return(Err("path not in namespace"))

\* Svc::call that answers a path that is not in the namespace as it answers
\* a null rendering
http_call_missing_is_null(l, r, method, path, query) ==
    IF method # "GET" THEN Return(404)
    ELSE IF query = Some("HOST_INFO") THEN Return(200)
    ELSE IF IsSome(query) /\ Unwrap(query) \notin NodeQueryParams THEN Return(400)
    ELSE LET s == PathSerializeWrapper(l, r, path, query) IN
         IF s.panicked THEN s
         ELSE IF s.v.ok /\ s.v.v.json # "null" THEN Return(200)
         ELSE Return(204)

\* Svc::call: the status of the response; query is the URI's query string,
\* if it has one
http_call(l, r, method, path, query) ==
    IF method # "GET" THEN Return(404)
    ELSE IF query = Some("HOST_INFO") THEN Return(200)
    ELSE IF IsSome(query) /\ Unwrap(query) \notin NodeQueryParams THEN Return(400)
    ELSE LET s == PathSerializeWrapper(l, r, path, query) IN
         IF s.panicked THEN s
         ELSE IF ~s.v.ok THEN Return(404)
         ELSE IF s.v.v.json = "null" THEN Return(204)
         ELSE Return(200)

----------------------------------------------------------------------------
(* OscService: service/osc.rs.  The service is [worker, cmds, send_addrs]:  *)
(* the state of the worker thread, the commands waiting in its channel and  *)
(* the peers.  A datagram is what rosc's encoder makes of a packet (the     *)
(* encoder is not part of this repository: it is taken to be injective and  *)
(* the decoder to be its inverse) or bytes that decode to nothing.          *)

OscServiceNew == [worker |-> "running", cmds |-> <<>>, send_addrs |-> {}]

encode(packet) == [datagram |-> "osc", packet |-> packet]
Garbage == [datagram |-> "garbage"]
decode(buf) == IF buf.datagram = "osc" THEN Ok(buf.packet) ELSE Err("bad packet")

CommandSend(buf, addr) == [command |-> "Send", buf |-> buf, addr |-> addr]
CommandEnd == [command |-> "End"]

\* impl OscRender for Node: the values of a Get or GetSet node in parameter
\* order, nothing for a Container or a Set node
osc_render(n) ==
    IF n.variant \in {"Get", "GetSet"}
    THEN [i \in 1..Len(n.params) |->
            IF n.params[i].kind = "Midi"
            THEN LET v == value_get(n.params[i]) IN
                 OscArg("Midi", [port |-> v[1], status |-> v[2],
                                 data1 |-> v[3], data2 |-> v[4]])
            ELSE OscArg(n.params[i].kind, value_get(n.params[i]))]
    ELSE <<>>

\* the orders in which a HashSet may be iterated
Orders(S) == {o \in [1..Cardinality(S) -> S] : \A x \in S : \E i \in DOMAIN o : o[i] = x}

\* OscService::send, iterating send_addrs in the given order: a Send for
\* every peer; with the worker gone the receiver is dropped and every send
\* is an error that is only printed
osc_send(o, buf, order) ==
    IF o.worker = "running"
    THEN [o EXCEPT !.cmds = @ \o [i \in 1..Len(order) |-> CommandSend(buf, order[i])]]
    ELSE o

\* OscService::render_and_send
render_and_send(o, nw, order) ==
    LET msg == OscMessage(nw.full_path, osc_render(nw.node)) IN
    [osc |-> osc_send(o, encode(msg), order), msg |-> Some(msg)]

\* OscService::trigger
osc_trigger(l, r, o, handle, order) ==
    IF read_locked(l).ok /\ IsSome(with_node_at_handle(r, handle))
    THEN render_and_send(o, Unwrap(with_node_at_handle(r, handle)), order)
    ELSE [osc |-> o, msg |-> None]

\* OscService::trigger_path
osc_trigger_path(l, r, o, path, order) ==
    IF read_locked(l).ok /\ IsSome(with_node_at_path(r, path))
    THEN render_and_send(o, Unwrap(with_node_at_path(r, path))[1], order)
    ELSE [osc |-> o, msg |-> None]

\* OscService::add_send_addr
add_send_addr(o, addr) == [o EXCEPT !.send_addrs = @ \cup {addr}]

----------------------------------------------------------------------------
(* WSService: service/websocket.rs.  The service is [cmd_recv, cmds,       *)
(* sessions]: the receiving end of its command channel, the commands in    *)
(* that channel, and the client sessions by peer.                          *)

\* WSService::new: the receiver of the command channel is bound to a local
\* that nothing uses and is dropped when new returns
WSServiceNew == [cmd_recv |-> "dropped", cmds |-> <<>>, sessions |-> <<>>]

\* the frames of a WebSocket connection
Text(json) == [frame |-> "Text", json |-> json]
Binary(buf) == [frame |-> "Binary", buf |-> buf]
Close == [frame |-> "Close"]
Ping == [frame |-> "Ping"]

\* WSCommandPacket { command, data }, fields renamed COMMAND and DATA
WSCommandPacket(command, data) == [COMMAND |-> command, DATA |-> data]

\* HandleCommand
HandleOsc(m) == [cmd |-> "Osc", msg |-> m]
HandleNamespaceChange(c) == [cmd |-> "NamespaceChange", change |-> c]

\* a session as the accept loop sets it up: the sender of its unbounded
\* channel registered in the broadcast map, handle_connection spawned with
\* an empty listening set and the close flag down; rx is what is waiting
\* in the channel, out the last frame written to the client, incoming and
\* cmds the two futures handle_connection selects on
SessionNew ==
    [registered |-> TRUE, listening |-> {}, close |-> FALSE, rx |-> <<>>,
     out |-> None, incoming |-> "running", cmds |-> "running"]

\* the closure of incoming.try_for_each for one frame of the client, without
\* the dispatch of a Binary frame into the tree
session_incoming(ss, msg) ==
    IF ss.close THEN [ss EXCEPT !.incoming = "done"]
    ELSE IF msg.frame = "Close" THEN [ss EXCEPT !.close = TRUE, !.incoming = "done"]
    ELSE IF msg.frame = "Text" /\ msg.json.COMMAND = "LISTEN"
    THEN [ss EXCEPT !.listening = @ \cup {msg.json.DATA}]
    ELSE IF msg.frame = "Text" /\ msg.json.COMMAND = "IGNORE"
    THEN [ss EXCEPT !.listening = @ \ {msg.json.DATA}]
    ELSE ss

\* the text frame of a namespace change
ns_frame(c) ==
    Text(WSCommandPacket(IF c.change = "PathAdded" THEN "PATH_ADDED" ELSE "PATH_REMOVED",
                         c.path))

\* the cmds task that relays every Osc command, subscribed to or not
session_cmd_unfiltered(ss) ==
    IF ss.rx = <<>> THEN [ss EXCEPT !.cmds = "done"]
    ELSE IF ss.close THEN [ss EXCEPT !.rx = Tail(@), !.cmds = "done"]
    ELSE IF Head(ss.rx).cmd = "Close"
    THEN [ss EXCEPT !.rx = Tail(@), !.close = TRUE, !.cmds = "done"]
    ELSE IF Head(ss.rx).cmd = "Osc"
    THEN [ss EXCEPT !.rx = Tail(@), !.out = Some(Binary(encode(Head(ss.rx).msg)))]
    ELSE [ss EXCEPT !.rx = Tail(@), !.out = Some(ns_frame(Head(ss.rx).change))]

\* one turn of `while let Ok(cmd) = rx.try_next()` in the cmds task:
\* try_next is an Err when nothing is waiting, which ends the loop and
\* the task
session_cmd(ss) ==
    IF ss.rx = <<>> THEN [ss EXCEPT !.cmds = "done"]
    ELSE IF ss.close THEN [ss EXCEPT !.rx = Tail(@), !.cmds = "done"]
    ELSE IF Head(ss.rx).cmd = "Close"
    THEN [ss EXCEPT !.rx = Tail(@), !.close = TRUE, !.cmds = "done"]
    ELSE IF Head(ss.rx).cmd = "Osc"
    THEN [ss EXCEPT !.rx = Tail(@),
                    !.out = IF Head(ss.rx).msg.addr \in ss.listening
                            THEN Some(Binary(encode(Head(ss.rx).msg)))
                            ELSE @]
    ELSE [ss EXCEPT !.rx = Tail(@), !.out = Some(ns_frame(Head(ss.rx).change))]

\* the turn of the cmds task that is next calls outgoing.send(..)
writes_frame(ss) ==
    /\ ss.rx # <<>>
    /\ ~ss.close
    /\ \/ Head(ss.rx).cmd = "NamespaceChange"
       \/ Head(ss.rx).cmd = "Osc" /\ Head(ss.rx).msg.addr \in ss.listening

\* the turn of the cmds task in which outgoing.send(..).await is an
\* error: the error is printed and the loop goes on
session_cmd_write_err(ss) == [ss EXCEPT !.rx = Tail(@)]

\* a namespace-change loop that puts the change in front of what is waiting
ns_broadcast_front(w, c) ==
    [w EXCEPT !.sessions =
        [a \in DOMAIN w.sessions |->
            IF w.sessions[a].registered
            THEN [w.sessions[a] EXCEPT !.rx = <<HandleNamespaceChange(c)>> \o @]
            ELSE w.sessions[a]]]

\* the namespace-change loop: the change is sent to every sender of the
\* broadcast map
ns_broadcast(w, c) ==
    [w EXCEPT !.sessions =
        [a \in DOMAIN w.sessions |->
            IF w.sessions[a].registered
            THEN [w.sessions[a] EXCEPT !.rx = Append(@, HandleNamespaceChange(c))]
            ELSE w.sessions[a]]]

\* WSService::send: cmd_sender.send(Command::Osc(msg)), the result ignored
ws_send(w, msg) ==
    IF w.cmd_recv = "dropped" THEN w
    ELSE [w EXCEPT !.cmds = Append(@, [command |-> "Osc", msg |-> msg])]

\* OscQueryServer::trigger / trigger_path (server.rs), given what the OSC
\* service's trigger returned
server_trigger(t, w) ==
    IF IsSome(t.msg)
    THEN [osc |-> t.osc, ws |-> ws_send(w, Unwrap(t.msg)), result |-> TRUE]
    ELSE [osc |-> t.osc, ws |-> w, result |-> FALSE]

----------------------------------------------------------------------------
(* Inputs of the tree operations *)

\* the handles the application can hold: every index add_node has returned,
\* still live or not (the root's index is never handed out)
Handles == DOMAIN root.graph.nodes \ {root.root}

Addresses == {Str_a, Str_b, Str_empty, Str_a_slash_b, Str_slash_a}

Parents == {None} \cup {Some(h) : h \in Handles}

ParamInt(v) == Param("Int", v, "Atomic", "none", RangeNone, None)

TreeParams(variant) == IF variant = "Container" THEN <<>> ELSE <<ParamInt(2084)>>

\* the <<variant, address>> pairs the application passes to the node
\* constructors in the specification of the tree on its own
TreeNodes == {<<"Container", Str_a>>, <<"Get", Str_b>>}
                 \cup {<<v, Str_a_slash_b>> : v \in Variants}
                 \cup {<<"Container", Str_slash_a>>}

\* and in the specification with a namespace-change consumer
NsNodes == {<<"Container", Str_a>>}

----------------------------------------------------------------------------
(* Inputs of the OSC write path *)

Str_foo == <<"f", "o", "o">>
Str_bar == <<"b", "a", "r">>
Str_val == <<"v", "a", "l">>

Path_foo == <<"/", "f", "o", "o">>
Path_foo_bar == <<"/", "f", "o", "o", "/", "b", "a", "r">>
Path_foo_val == <<"/", "f", "o", "o", "/", "v", "a", "l">>
Path_nope == <<"/", "n", "o", "p", "e">>

\* the tree of scenario S1: Container("foo", "description of foo") under
\* the root and Get("bar", "b", [Int(2084, unit "distance.m")]) under foo
S1Tree ==
    LET ch == [queue |-> <<>>, connected |-> FALSE]
        foo == add_node(RootInnerNew(None), ch,
                        NodeNew("Container", Str_foo, Some("description of foo"),
                                <<>>, None).v,
                        None)
        bar == add_node(foo.root, ch,
                        NodeNew("Get", Str_bar, Some("b"),
                                <<Param("Int", 2084, "Atomic", "none", RangeNone,
                                        Some("distance.m"))>>,
                                None).v,
                        Some(foo.result.v))
    IN [root |-> bar.root, h1 |-> foo.result.v, bar |-> bar.result.v]

\* a writable parameter of each kind as the application builds it, with
\* the value its storage starts with; the Int declares a range and a clip
\* mode
WritableParam(kind, store) ==
    CASE kind = "Int" -> Param(kind, 23, store, "both", RangeMinMax(-1, 24), Some("horses"))
      [] kind = "Float" -> Param(kind, "0.0", store, "none", RangeNone, None)
      [] kind = "String" -> Param(kind, "init", store, "none", RangeNone, None)
      [] kind = "Time" -> Param(kind, <<0, 0>>, store, "none", RangeNone, None)
      [] kind = "Long" -> Param(kind, 0, store, "none", RangeNone, None)
      [] kind = "Double" -> Param(kind, "23.0", store, "none", RangeNone, None)
      [] kind = "Char" -> Param(kind, "a", store, "none", RangeNone, None)
      [] kind = "Midi" -> Param(kind, <<0, 128, 0, 0>>, store, "none", RangeNone, None)
      [] kind = "Bool" -> Param(kind, FALSE, store, "none", RangeNone, None)
      [] kind = "Array" -> Param(kind, <<OscArg("Double", "23.0"), OscArg("Long", 589)>>,
                                 store, "none", RangeNone, None)

\* <<variant, kinds, store>> of the writable node: a GetSet node with a
\* parameter of every kind before an Int, or with an Int alone; a Set node
\* with a parameter of every kind behind an Int, or writing a String to the
\* unit type (value/dummy.rs, examples/server.rs)
OscNodes ==
    {<<"GetSet", <<k, "Int">>, "Atomic">> : k \in ParamKinds}
        \cup {<<"GetSet", <<"Int">>, "Atomic">>}
        \cup {<<"Set", <<"Int", k>>, "Atomic">> : k \in ParamKinds}
        \cup {<<"Set", <<"String">>, "Unit">>}

\* S1 and a writable node "val" under foo
OscTree(n) ==
    LET params == [i \in 1..Len(n[2]) |-> WritableParam(n[2][i], n[3])]
        val == add_node(S1Tree.root, [queue |-> <<>>, connected |-> FALSE],
                        NodeNew(n[1], Str_val, None, params, None).v,
                        Some(S1Tree.h1))
    IN [root |-> val.root, result |-> val.result]

\* the arguments a message may carry: one of every OscType, with a second
\* Int that lies outside the range the Int parameter declares
OscArgs ==
    {OscArg("Int", 7), OscArg("Int", 2084), OscArg("Float", "1.5"),
     OscArg("String", "hello"), OscArg("Time", <<1, 2>>), OscArg("Long", 589),
     OscArg("Double", "2.5"), OscArg("Char", "z"),
     OscArg("Midi", [port |-> 1, status |-> 144, data1 |-> 60, data2 |-> 127]),
     OscArg("Bool", TRUE), OscArg("Array", <<OscArg("Int", 1)>>),
     OscArg("Blob", <<1, 2>>),
     OscArg("Color", [red |-> 255, green |-> 0, blue |-> 16, alpha |-> 255]),
     OscArg("Nil", "nil"), OscArg("Inf", "inf")}

OscArgLists == UNION {[1..k -> OscArgs] : k \in 0..MaxArgs}

\* the message of scenario S4
S4Message == OscMessage(Path_foo_bar, <<OscArg("Int", 7)>>)

OscPackets ==
    {OscMessage(Path_foo_val, a) : a \in OscArgLists}
        \cup {S4Message,
              OscMessage(Path_foo, <<OscArg("Int", 7)>>),
              OscMessage(Path_nope, <<OscArg("Int", 7)>>),
              OscBundle(<<0, 1>>, <<S4Message, OscMessage(Path_foo_val, <<OscArg("Int", 7)>>)>>)}

----------------------------------------------------------------------------
(* Inputs of the dispatch with handlers: examples/server.rs *)

\* a handler that returns a callback that panics
PanicHandler == Some(ConstHandler(Some(<<[call |-> "panic"]>>)))

Str_add == <<"a", "d", "d">>
Str_boom == <<"b", "o", "o", "m">>
Str_soda == <<"s", "o", "d", "a">>
Str_cola == <<"c", "o", "l", "a">>

Path_foo_add == <<"/", "f", "o", "o", "/", "a", "d", "d">>
Path_foo_boom == <<"/", "f", "o", "o", "/", "b", "o", "o", "m">>
Path_foo_soda == <<"/", "f", "o", "o", "/", "s", "o", "d", "a">>
Path_foo_cola == <<"/", "f", "o", "o", "/", "c", "o", "l", "a">>

\* S1 and three writable nodes under foo: GetSet("val", [Int 23]) with a
\* handler that returns None, Set("add", [String to the unit type]) with
\* the handler that adds a node under foo, Set("boom", [Int]) with a
\* handler whose callback panics
PktTree ==
    LET ch == [queue |-> <<>>, connected |-> FALSE]
        val == add_node(S1Tree.root, ch,
                        NodeNew("GetSet", Str_val, None,
                                <<WritableParam("Int", "Atomic")>>,
                                Some(ConstHandler(None))).v,
                        Some(S1Tree.h1))
        add == add_node(val.root, ch,
                        NodeNew("Set", Str_add, None,
                                <<WritableParam("String", "Unit")>>,
                                Some(AddHandler(Some(S1Tree.h1)))).v,
                        Some(S1Tree.h1))
        boom == add_node(add.root, ch,
                         NodeNew("Set", Str_boom, None,
                                 <<WritableParam("Int", "Atomic")>>,
                                 PanicHandler).v,
                         Some(S1Tree.h1))
    IN [root |-> boom.root, val |-> val.result.v, add |-> add.result.v,
        boom |-> boom.result.v, result |-> boom.result]

\* the timetags of an outer and of a nested bundle
TimetagOuter == <<1, 0>>
TimetagInner == <<2, 0>>

\* the messages m1, m2, m3 of a bundle: a write of /foo/val, the add of
\* soda, another write of /foo/val
Msg1 == OscMessage(Path_foo_val, <<OscArg("Int", 7)>>)
Msg2 == OscMessage(Path_foo_add, <<OscArg("String", Str_soda)>>)
Msg3 == OscMessage(Path_foo_val, <<OscArg("Int", 2084)>>)
MsgCola == OscMessage(Path_foo_add, <<OscArg("String", Str_cola)>>)
MsgBoom == OscMessage(Path_foo_boom, <<OscArg("Int", 7)>>)

BundleFlat == OscBundle(TimetagOuter, <<Msg1, Msg2, Msg3>>)
BundleNested ==
    OscBundle(TimetagOuter, <<Msg1, OscBundle(TimetagInner, <<Msg2>>), Msg3>>)
BundleTwoAdds == OscBundle(TimetagOuter, <<Msg2, MsgCola>>)

\* messages that reach no writable node: an address that is not in the
\* namespace, a Container, a Get node
UnwritableMessages ==
    {OscMessage(addr, args) :
        addr \in {Path_nope, Path_foo, Path_foo_bar, Path_foo_soda},
        args \in {<<OscArg("Int", 7)>>, <<OscArg("Nil", "nil")>>, <<>>}}

\* the packets that are dispatched: S7's message alone, the bundles, an
\* add without a name, with a name that is no string, with a name that is
\* no address, and the messages that reach no writable node
PktPackets ==
    {Msg2, Msg1, BundleFlat, BundleNested, BundleTwoAdds,
     OscMessage(Path_foo_add, <<>>),
     OscMessage(Path_foo_add, <<OscArg("Int", 7)>>),
     OscMessage(Path_foo_add, <<OscArg("String", Str_a_slash_b)>>)}
        \cup UnwritableMessages

\* total number of node slots in the specifications of the dispatch
MaxPktNodes == 9

----------------------------------------------------------------------------
(* Inputs of the server *)

Peers == {"peer1", "peer2"}

\* an incoming MIDI message
MidiNoteOn == [port |-> 1, status |-> 144, data1 |-> 60, data2 |-> 127]

\* <<variant, kinds, handler>> of the node "val" the server is built with
SrvNodes ==
    {<<"GetSet", <<"Int", "Midi">>, None>>,
     <<"Set", <<"Int">>, None>>,
     <<"Set", <<"Int">>, PanicHandler>>}

\* S1 and the node "val" under foo
SrvTree(n) ==
    LET params == [i \in 1..Len(n[2]) |-> WritableParam(n[2][i], "Atomic")]
        val == add_node(S1Tree.root, [queue |-> <<>>, connected |-> FALSE],
                        NodeNew(n[1], Str_val, None, params, n[3]).v,
                        Some(S1Tree.h1))
    IN [root |-> val.root, result |-> val.result]

\* the datagrams that arrive at the OSC socket
SrvDatagrams ==
    {encode(OscMessage(Path_foo_val, a)) :
        a \in {<<OscArg("Int", 7)>>,
               <<OscArg("Int", 7), OscArg("Midi", MidiNoteOn)>>,
               <<OscArg("Nil", "nil")>>,
               <<OscArg("Blob", <<1, 2>>)>>,
               <<OscArg("Color", [red |-> 255, green |-> 0, blue |-> 16, alpha |-> 255])>>,
               <<OscArg("Inf", "inf")>>}}
        \cup {Garbage}

\* what the application triggers
SrvPaths == {Path_foo_val, Path_foo_bar, Path_foo, Path_nope}

\* the requests that arrive at the HTTP service
HttpMethods == {"GET", "POST"}
HttpPaths == SrvPaths \cup {<<"/">>}
HttpQueries == {None} \cup {Some(q) : q \in NodeQueryParams \cup {"HOST_INFO", "BOGUS"}}

\* total number of node slots in the specification of the server
MaxSrvNodes == 4

----------------------------------------------------------------------------
(* Inputs of the WebSocket service *)

WsClients == {"client1"}

\* the handles of the nodes the application adds and removes while the
\* service runs; the nodes of S1 stay
WsHandles == Handles \ {S1Tree.h1, S1Tree.bar}

\* the frames a client sends: LISTEN and IGNORE of /foo/bar, a command the
\* server does not know, the message of S4 as a binary frame, Ping, Close
WsFrames ==
    {Text(WSCommandPacket("LISTEN", Path_foo_bar)),
     Text(WSCommandPacket("IGNORE", Path_foo_bar)),
     Text(WSCommandPacket("HELLO", Path_foo_bar)),
     Binary(encode(S4Message)),
     Ping,
     Close}

----------------------------------------------------------------------------
(* Actions *)

\* no service has been spawned, no thread shares the Root
NoServices ==
    /\ lock = RwLockNew
    /\ osc = OscServiceNew
    /\ ws = WSServiceNew
    /\ threads = <<>>

Init ==
    /\ root = RootInnerNew(None)
    /\ ns_channel = [queue |-> <<>>, connected |-> FALSE]
    /\ last = [op |-> "new_root"]
    /\ NoServices

\* a node constructor is called and, when it returns a node, Root::add_node
\* is called with that node
AddNode(variant, address, parent) ==
    LET c == NodeNew(variant, address, None, TreeParams(variant), None) IN
    IF ~c.ok
    THEN /\ last' = [op |-> "new", result |-> c]
         /\ UNCHANGED <<root, ns_channel, services>>
    ELSE /\ LET a == Root_add_node(lock, root, ns_channel, c.v, parent) IN
            /\ root' = a.root
            /\ ns_channel' = a.chan
            /\ last' = [op |-> "add_node", result |-> a.result]
         /\ UNCHANGED services

\* Root::rm_node
RmNode(handle) ==
    LET a == Root_rm_node(lock, root, ns_channel, handle) IN
    /\ root' = a.root
    /\ ns_channel' = a.chan
    /\ last' = [op |-> "rm_node", result |-> a.result, ids |-> a.ids]
    /\ UNCHANGED services

\* ns_change_recv that makes a channel on every call and puts its sender
\* in the place of the one that was there
NsChangeRecvReplaces ==
    /\ root' = [root EXCEPT !.ns_change_send = Some("sender")]
    /\ ns_channel' = [queue |-> <<>>, connected |-> TRUE]
    /\ last' = [op |-> "ns_change_recv", result |-> Some("receiver")]
    /\ UNCHANGED services

\* RootInner::ns_change_recv, as WSService::new calls it
NsChangeRecv ==
    IF IsSome(root.ns_change_send)
    THEN /\ last' = [op |-> "ns_change_recv", result |-> None]
         /\ UNCHANGED <<root, ns_channel, services>>
    ELSE /\ root' = [root EXCEPT !.ns_change_send = Some("sender")]
         /\ ns_channel' = [queue |-> <<>>, connected |-> TRUE]
         /\ last' = [op |-> "ns_change_recv", result |-> Some("receiver")]
         /\ UNCHANGED services

\* every registered session's channel holds fewer than max commands (the
\* channel is unbounded in the code: max is where the model stops)
RxRoomFor(max) ==
    \A a \in DOMAIN ws.sessions :
        ws.sessions[a].registered => Len(ws.sessions[a].rx) < max

RxRoom == RxRoomFor(MaxRx)

\* the namespace-change loop of the WebSocket service takes one event and
\* sends it to every session
NsRecvWithin(max) ==
    /\ ns_channel.connected
    /\ ns_channel.queue # <<>>
    /\ RxRoomFor(max)
    /\ ns_channel' = [ns_channel EXCEPT !.queue = Tail(ns_channel.queue)]
    /\ ws' = ns_broadcast(ws, Head(ns_channel.queue))
    /\ last' = [op |-> "ns_recv"]
    /\ UNCHANGED <<root, lock, osc, threads>>

NsRecv == NsRecvWithin(MaxRx)

\* the WebSocket service's runtime ends and drops the receiver
NsReceiverDrop ==
    /\ ns_channel.connected
    /\ ns_channel' = [queue |-> <<>>, connected |-> FALSE]
    /\ last' = [op |-> "ns_receiver_drop"]
    /\ UNCHANGED <<root, services>>

\* the graph may take one more node without exceeding max slots
CanAlloc(max) == root.graph.free_node # <<>> \/ node_bound(root.graph) < max

\* The tree on its own, as the tests of root.rs use it
Next ==
    \/ \E n \in TreeNodes, p \in Parents : CanAlloc(MaxNodes) /\ AddNode(n[1], n[2], p)
    \/ \E h \in Handles : RmNode(h)

Spec == Init /\ [][Next]_vars

\* The tree with the WebSocket service as consumer of its namespace changes
NextNs ==
    \/ \E n \in NsNodes, p \in Parents : CanAlloc(MaxNsNodes) /\ AddNode(n[1], n[2], p)
    \/ \E h \in Handles : RmNode(h)
    \/ NsChangeRecv
    \/ NsRecv
    \/ NsReceiverDrop

SpecNs == Init /\ [][NextNs]_vars

\* the tree of S1 with a writable node, before any packet has arrived
InitOsc ==
    \E n \in OscNodes :
        /\ root = OscTree(n).root
        /\ ns_channel = [queue |-> <<>>, connected |-> FALSE]
        /\ last = [op |-> "add_node", result |-> OscTree(n).result]
        /\ NoServices

\* a service hands a decoded packet to RootInner::handle_osc_packet; a
\* panic unwinds the thread that made the call and leaves behind what was
\* written before it
HandleOscPacket(packet) ==
    LET h == handle_osc_packet(lock, root, ns_channel, packet, None) IN
    /\ root' = h.root
    /\ ns_channel' = h.chan
    /\ lock' = h.lock
    /\ UNCHANGED <<osc, ws, threads>>
    /\ last' = [op |-> "osc",
                addr |-> IF packet.packet = "Message" THEN packet.addr ELSE <<"#bundle">>,
                result |-> IF h.panicked THEN "panicked" ELSE "returned"]

\* The OSC write path into the parameters of the tree
NextOsc == \E packet \in OscPackets : HandleOscPacket(packet)

SpecOsc == InitOsc /\ [][NextOsc]_vars

\* OscQueryServer::new on the tree of S1 with the node "val"
InitSrv ==
    \E n \in SrvNodes :
        /\ root = SrvTree(n).root
        /\ ns_channel = [queue |-> <<>>, connected |-> FALSE]
        /\ last = [op |-> "add_node", result |-> SrvTree(n).result]
        /\ NoServices

\* OscService::add_send_addr
AddSendAddr(addr) ==
    /\ osc' = add_send_addr(osc, addr)
    /\ last' = [op |-> "add_send_addr"]
    /\ UNCHANGED <<root, ns_channel, lock, ws, threads>>

\* the command channel takes the Sends of one trigger without blocking
CmdRoom == Len(osc.cmds) + Cardinality(osc.send_addrs) <= CHANNEL_LEN

\* OscQueryServer::trigger
Trigger(handle, order) ==
    LET t == server_trigger(osc_trigger(lock, root, osc, handle, order), ws) IN
    /\ CmdRoom
    /\ osc' = t.osc
    /\ ws' = t.ws
    /\ last' = [op |-> "trigger", triggered |-> t.result]
    /\ UNCHANGED <<root, ns_channel, lock, threads>>

\* OscQueryServer::trigger_path
TriggerPath(path, order) ==
    LET t == server_trigger(osc_trigger_path(lock, root, osc, path, order), ws) IN
    /\ CmdRoom
    /\ osc' = t.osc
    /\ ws' = t.ws
    /\ last' = [op |-> "trigger_path", triggered |-> t.result]
    /\ UNCHANGED <<root, ns_channel, lock, threads>>

\* the worker of the OSC service takes a command: a Send goes out on the
\* socket, End ends the thread
OscWorkerCommand ==
    /\ osc.worker = "running"
    /\ osc.cmds # <<>>
    /\ osc' = IF Head(osc.cmds).command = "End"
              THEN [osc EXCEPT !.worker = "ended", !.cmds = <<>>]
              ELSE [osc EXCEPT !.cmds = Tail(@)]
    /\ last' = [op |-> "osc_command", cmd |-> Head(osc.cmds)]
    /\ UNCHANGED <<root, ns_channel, lock, ws, threads>>

\* the worker of the OSC service reads a datagram: decode(..).unwrap() and
\* handle_osc_packet.  A panic ends the thread and drops the receiver of
\* the command channel.
OscWorkerRecv(buf) ==
    /\ osc.worker = "running"
    /\ LET d == decode(buf)
           h == IF d.ok THEN handle_osc_packet(lock, root, ns_channel, d.v, None)
                ELSE [root |-> root, chan |-> ns_channel, lock |-> lock,
                      panicked |-> TRUE]
       IN /\ root' = h.root
          /\ ns_channel' = h.chan
          /\ lock' = h.lock
          /\ osc' = IF h.panicked
                    THEN [osc EXCEPT !.worker = "panicked", !.cmds = <<>>]
                    ELSE osc
          /\ last' = [op |-> "osc_recv",
                      outcome |-> IF h.panicked THEN "panicked" ELSE "returned"]
    /\ UNCHANGED <<ws, threads>>

\* the HTTP service answers a request (Svc::call); a panic ends the task
\* of the connection and no response is written.  Of the request, the
\* method and whether a node is at the path are kept for the record.
HttpGet(method, path, query) ==
    LET rsp == http_call(lock, root, method, path, query) IN
    /\ last' = [op |-> "http",
                method |-> method,
                found |-> IsSome(with_node_at_path(root, path)),
                outcome |-> IF rsp.panicked THEN "panicked" ELSE "returned",
                status |-> IF rsp.panicked THEN None ELSE Some(rsp.v)]
    /\ UNCHANGED <<root, ns_channel, services>>

\* Root::handle_to_path
HandleToPath(handle) ==
    LET p == Root_handle_to_path(lock, root, handle) IN
    /\ last' = [op |-> "handle_to_path",
                outcome |-> IF p.panicked THEN "panicked" ELSE "returned",
                path |-> IF p.panicked THEN None ELSE p.v]
    /\ UNCHANGED <<root, ns_channel, services>>

\* Root::name
Name ==
    /\ last' = [op |-> "name", name |-> Root_name(lock, root)]
    /\ UNCHANGED <<root, ns_channel, services>>

\* serde_json::to_value(&root): impl Serialize for Root
Serialize ==
    LET j == Root_serialize(lock, root) IN
    /\ last' = [op |-> "serialize",
                outcome |-> IF j.panicked THEN "panicked" ELSE "returned"]
    /\ UNCHANGED <<root, ns_channel, services>>

\* The server: the tree, the OSC service and the facade's triggers
NextSrv ==
    \/ \E a \in Peers : AddSendAddr(a)
    \/ \E h \in Handles, o \in Orders(osc.send_addrs) : Trigger(h, o)
    \/ \E p \in SrvPaths, o \in Orders(osc.send_addrs) : TriggerPath(p, o)
    \/ OscWorkerCommand
    \/ \E buf \in SrvDatagrams : OscWorkerRecv(buf)
    \/ \E h \in Handles : RmNode(h)

SpecSrv == InitSrv /\ [][NextSrv]_vars

\* The dispatch of packets to a tree with handlers, one packet at a time:
\* handle_osc_packet with no other thread at the tree.  The handler calls
\* made are kept for the record.
InitDispatch ==
    /\ root = PktTree.root
    /\ ns_channel = [queue |-> <<>>, connected |-> FALSE]
    /\ last = [op |-> "add_node", result |-> PktTree.result]
    /\ NoServices

\* the handles of the nodes that mutators have added
AddedHandles == Handles \ DOMAIN PktTree.root.graph.nodes

\* a dispatch finds room for the two nodes its mutators may add
PktRoom == node_bound(root.graph) + 2 <= MaxPktNodes

DispatchPacket(packet, time) ==
    LET h == handle_osc_packet(lock, root, ns_channel, packet, time) IN
    /\ PktRoom
    /\ root' = h.root
    /\ ns_channel' = h.chan
    /\ lock' = h.lock
    /\ last' = [op |-> "dispatch",
                outcome |-> IF h.panicked THEN "panicked" ELSE "returned",
                calls |-> h.calls]
    /\ UNCHANGED <<osc, ws, threads>>

NextDispatch ==
    \/ \E packet \in PktPackets : DispatchPacket(packet, None)
    \/ \E h \in AddedHandles : RmNode(h)

SpecDispatch == InitDispatch /\ [][NextDispatch]_vars

\* handle_osc_packet step by step, on the tree that the OSC worker thread,
\* a WebSocket session and the application's thread share: each step is
\* what a thread does between two operations on the lock.
Dispatchers == {"osc", "ws"}

\* the packets each dispatcher receives
PacketsOf(d) ==
    IF d = "osc" THEN {Msg2, Msg1, BundleTwoAdds} ELSE {MsgCola, MsgBoom}

\* the number of packets a dispatcher handles, and of calls the
\* application makes
MaxPkts == 2
MaxAppCalls == 3

IdleDispatcher(n) == [pc |-> "idle", packet |-> None, cb |-> None, n |-> n]
IdleApp(own, n) == [pc |-> "idle", steps |-> <<>>, before |-> None,
                    own |-> own, n |-> n]

InitPkt ==
    /\ root = PktTree.root
    /\ ns_channel = [queue |-> <<>>, connected |-> FALSE]
    /\ last = [op |-> "add_node", result |-> PktTree.result]
    /\ lock = RwLockNew
    /\ osc = OscServiceNew
    /\ ws = WSServiceNew
    /\ threads = [osc |-> IdleDispatcher(0), ws |-> IdleDispatcher(0),
                  app |-> IdleApp(<<>>, 0)]

\* handle_osc_packet returns
PktReturned(d, packet, collected, ran) ==
    [op |-> "returned", thread |-> d, packet |-> packet,
     collected |-> collected, ran |-> ran]

\* root.read(): the thread waits while a write guard is held; a poisoned
\* lock gives Err, the walk is skipped, cb stays None and the call returns
PktRead(d, packet) ==
    /\ threads[d].pc = "idle"
    /\ threads[d].n < MaxPkts
    /\ PktRoom
    /\ can_read(lock)
    /\ IF read_locked(lock).ok
       THEN /\ lock' = read_lock(lock, d)
            /\ threads' = [threads EXCEPT ![d] = [pc |-> "reading",
                                                  packet |-> Some(packet),
                                                  cb |-> None,
                                                  n |-> threads[d].n + 1]]
            /\ last' = [op |-> "read", thread |-> d]
       ELSE /\ UNCHANGED lock
            /\ threads' = [threads EXCEPT ![d] = IdleDispatcher(threads[d].n + 1)]
            /\ last' = PktReturned(d, packet, <<>>, <<>>)
    /\ UNCHANGED <<root, ns_channel, osc, ws>>

\* cb = root.handle_osc_packet_inner(..) and the end of the if-let block,
\* where the read guard is dropped; a handler's panic unwinds through the
\* guard, which a read guard survives unpoisoned
PktInner(d) ==
    /\ threads[d].pc = "reading"
    /\ LET h == handle_osc_packet_inner(root, Unwrap(threads[d].packet), None) IN
       /\ root' = h.root
       /\ lock' = read_unlock(lock, d)
       /\ IF h.panicked
          THEN /\ threads' = [threads EXCEPT ![d].pc = "panicked"]
               /\ last' = [op |-> "panicked", thread |-> d]
          ELSE IF IsNone(h.cb)
          THEN /\ threads' = [threads EXCEPT ![d] = IdleDispatcher(threads[d].n)]
               /\ last' = PktReturned(d, Unwrap(threads[d].packet), <<>>, <<>>)
          ELSE /\ threads' = [threads EXCEPT ![d].pc = "collected", ![d].cb = h.cb]
               /\ last' = [op |-> "collected", thread |-> d]
    /\ UNCHANGED <<ns_channel, osc, ws>>

\* root.write(): the thread waits while any guard is held; a poisoned lock
\* gives Err, the callback is dropped unrun and the call returns
PktWrite(d) ==
    /\ threads[d].pc = "collected"
    /\ can_write(lock)
    /\ IF write_locked(lock).ok
       THEN /\ lock' = write_lock(lock, d)
            /\ threads' = [threads EXCEPT ![d].pc = "writing"]
            /\ last' = [op |-> "write", thread |-> d]
       ELSE /\ UNCHANGED lock
            /\ threads' = [threads EXCEPT ![d] = IdleDispatcher(threads[d].n)]
            /\ last' = PktReturned(d, Unwrap(threads[d].packet),
                                   Unwrap(threads[d].cb), <<>>)
    /\ UNCHANGED <<root, ns_channel, osc, ws>>

\* (cb)(root.deref_mut()) and the drop of the write guard; a panic of the
\* callback poisons the lock
PktRun(d) ==
    /\ threads[d].pc = "writing"
    /\ LET c == run_callback(root, ns_channel, Unwrap(threads[d].cb)) IN
       /\ root' = c.root
       /\ ns_channel' = c.chan
       /\ lock' = [write_unlock(lock) EXCEPT !.poisoned = c.panicked]
       /\ IF c.panicked
          THEN /\ threads' = [threads EXCEPT ![d].pc = "panicked"]
               /\ last' = [op |-> "panicked", thread |-> d]
          ELSE /\ threads' = [threads EXCEPT ![d] = IdleDispatcher(threads[d].n)]
               /\ last' = PktReturned(d, Unwrap(threads[d].packet),
                                      Unwrap(threads[d].cb), Unwrap(threads[d].cb))
    /\ UNCHANGED <<osc, ws>>

\* the application's thread enters Root::add_node or Root::rm_node:
\* write_locked() returns once no guard is held, with the guard or, on a
\* poisoned lock, with an error that the call returns
AppWriteLocked(steps, own) ==
    /\ threads.app.pc = "idle"
    /\ threads.app.n < MaxAppCalls
    /\ can_write(lock)
    /\ IF write_locked(lock).ok
       THEN /\ lock' = write_lock(lock, "app")
            /\ threads' = [threads EXCEPT !.app = [pc |-> "writing",
                                                   steps |-> steps,
                                                   before |-> Some(root),
                                                   own |-> own,
                                                   n |-> threads.app.n + 1]]
            /\ last' = [op |-> "write", thread |-> "app"]
       ELSE /\ UNCHANGED lock
            /\ threads' = [threads EXCEPT !.app.n = @ + 1]
            /\ last' = [op |-> "app_returned", ok |-> FALSE]
    /\ UNCHANGED <<root, ns_channel, osc, ws>>

\* root.add_node(Container "a", parent): under /foo, or under the node the
\* application added before
AppAddNode ==
    LET own == threads.app.own
        parent == IF Len(own) = 0 THEN S1Tree.h1 ELSE own[1]
        node == NodeNew("Container", Str_a, None, <<>>, None).v
        a == add_node(root, ns_channel, node, Some(parent))
    IN /\ Len(own) < 2
       /\ PktRoom
       /\ AppWriteLocked(add_node_steps(root, node, Some(parent)),
                         Append(own, a.result.v))

\* root.rm_node(handle) of the first node the application added
AppRmNode ==
    LET own == threads.app.own IN
    /\ Len(own) > 0
    /\ AppWriteLocked(rm_node_steps(root, rm_node(root, ns_channel, own[1]).ids),
                      <<>>)

\* the next statement of RootInner::add_node or RootInner::rm_node under
\* the write guard; with the last one the call returns and the guard is
\* dropped
AppStep ==
    /\ threads.app.pc = "writing"
    /\ root' = Head(threads.app.steps)
    /\ IF Len(threads.app.steps) = 1
       THEN /\ lock' = write_unlock(lock)
            /\ threads' = [threads EXCEPT
                              !.app = IdleApp(threads.app.own, threads.app.n)]
            /\ last' = [op |-> "app_returned", ok |-> TRUE]
       ELSE /\ UNCHANGED lock
            /\ threads' = [threads EXCEPT !.app.steps = Tail(@)]
            /\ last' = [op |-> "app_step"]
    /\ UNCHANGED <<ns_channel, osc, ws>>

NextPkt ==
    \/ \E d \in Dispatchers : \E packet \in PacketsOf(d) : PktRead(d, packet)
    \/ \E d \in Dispatchers : PktInner(d)
    \/ \E d \in Dispatchers : PktWrite(d)
    \/ \E d \in Dispatchers : PktRun(d)
    \/ AppAddNode
    \/ AppRmNode
    \/ AppStep

SpecPkt == InitPkt /\ [][NextPkt]_vars

\* The facade from its construction to its destruction, step by step: the
\* application's thread triggers /foo/val and then drops the server, the
\* worker of the OSC service turns its loop.  threads is [osc, app, http,
\* ws, sock]: the worker where it is in its loop (idle: at the top), the
\* application's thread, the threads of the HTTP and the WebSocket
\* service, and what has been sent on the UDP socket.  The worker calls
\* handle_osc_packet as root.rs defines it: the read guard is dropped
\* before the write lock is asked for.

\* the number of triggers before the server is dropped
MaxTriggers == 2

\* the datagrams that arrive while the server lives: S7's message, a
\* message whose callback panics, bytes that are no packet
DropDatagrams == {encode(Msg2), encode(MsgBoom), Garbage}

IdleTrigger(n, enq, down) ==
    [pc |-> "idle", pending |-> <<>>, n |-> n, enq |-> enq, down |-> down]

\* OscQueryServer::new on the tree of examples/server.rs
InitDrop ==
    /\ root = PktTree.root
    /\ ns_channel = [queue |-> <<>>, connected |-> FALSE]
    /\ last = [op |-> "add_node", result |-> PktTree.result]
    /\ lock = RwLockNew
    /\ osc = OscServiceNew
    /\ ws = WSServiceNew
    /\ threads = [osc |-> IdleDispatcher(0),
                  app |-> IdleTrigger(0, <<>>, <<>>),
                  http |-> "serving", ws |-> "serving", sock |-> <<>>]

\* a receiver that takes the command sent last
try_recv_newest(q) ==
    IF q = <<>> THEN Err("Empty")
    ELSE Ok([msg |-> q[Len(q)], rest |-> SubSeq(q, 1, Len(q) - 1)])

\* Receiver::try_recv on a channel whose sender lives: the message that
\* has waited longest, or Empty
try_recv(q) ==
    IF q = <<>> THEN Err("Empty")
    ELSE Ok([msg |-> Head(q), rest |-> Tail(q)])

\* cmd_recv.try_recv() at the top of the worker's loop: End returns from
\* the thread, a Send goes out on the socket, Empty goes on to the socket
WkTryRecv ==
    LET c == try_recv(osc.cmds) IN
    /\ osc.worker = "running"
    /\ threads.osc.pc = "idle"
    /\ IF ~c.ok
       THEN /\ UNCHANGED osc
            /\ threads' = [threads EXCEPT !.osc.pc = "recv_from"]
            /\ last' = [op |-> "try_recv", got |-> None]
       ELSE IF c.v.msg.command = "End"
       THEN /\ osc' = [osc EXCEPT !.worker = "ended", !.cmds = <<>>]
            /\ threads' = [threads EXCEPT !.osc.pc = "ended"]
            /\ last' = [op |-> "try_recv", got |-> Some(c.v.msg)]
       ELSE /\ osc' = [osc EXCEPT !.cmds = c.v.rest]
            /\ threads' = [threads EXCEPT !.osc.pc = "recv_from",
                                          !.sock = Append(@, c.v.msg)]
            /\ last' = [op |-> "try_recv", got |-> Some(c.v.msg)]
    /\ UNCHANGED <<root, ns_channel, lock, ws>>

\* sock.recv_from times out after READ_TIMEOUT
WkTimeout ==
    /\ threads.osc.pc = "recv_from"
    /\ threads' = [threads EXCEPT !.osc.pc = "idle"]
    /\ last' = [op |-> "recv_timeout"]
    /\ UNCHANGED <<root, ns_channel, lock, osc, ws>>

\* sock.recv_from fails with another error: the worker leaves its loop,
\* the thread ends and the receiver of the commands is dropped
WkRecvError ==
    /\ threads.osc.pc = "recv_from"
    /\ threads' = [threads EXCEPT !.osc.pc = "broke"]
    /\ osc' = [osc EXCEPT !.worker = "broke", !.cmds = <<>>]
    /\ last' = [op |-> "recv_error"]
    /\ UNCHANGED <<root, ns_channel, lock, ws>>

\* sock.recv_from returns a datagram: decode(..).unwrap(), then the first
\* phase of handle_osc_packet, from root.read() to the drop of the read
\* guard.  No other thread writes the tree here, so that the phase is one
\* step; a poisoned lock skips it.
WkRecv(buf) ==
    LET d == decode(buf)
        h == handle_osc_packet_inner(root, d.v, None)
        w == [threads.osc EXCEPT !.n = @ + 1]
    IN
    /\ threads.osc.pc = "recv_from"
    /\ threads.osc.n < MaxPkts
    /\ PktRoom
    /\ can_read(lock)
    /\ IF ~d.ok
       THEN /\ threads' = [threads EXCEPT !.osc = [w EXCEPT !.pc = "panicked"]]
            /\ last' = [op |-> "panicked", thread |-> "osc"]
            /\ UNCHANGED root
       ELSE IF ~read_locked(lock).ok
       THEN /\ threads' = [threads EXCEPT !.osc = IdleDispatcher(w.n)]
            /\ last' = PktReturned("osc", d.v, <<>>, <<>>)
            /\ UNCHANGED root
       ELSE /\ root' = h.root
            /\ IF h.panicked
               THEN /\ threads' = [threads EXCEPT
                                      !.osc = [w EXCEPT !.pc = "panicked"]]
                    /\ last' = [op |-> "panicked", thread |-> "osc"]
               ELSE IF IsNone(h.cb)
               THEN /\ threads' = [threads EXCEPT !.osc = IdleDispatcher(w.n)]
                    /\ last' = PktReturned("osc", d.v, <<>>, <<>>)
               ELSE /\ threads' = [threads EXCEPT
                                      !.osc = [pc |-> "collected",
                                               packet |-> Some(d.v),
                                               cb |-> h.cb, n |-> w.n]]
                    /\ last' = [op |-> "collected", thread |-> "osc"]
    /\ UNCHANGED <<ns_channel, lock, osc, ws>>

\* the panic of the worker has unwound through the guard it held: the
\* thread ends and the receiver of the commands is dropped
WkUnwind ==
    /\ threads.osc.pc = "panicked"
    /\ osc.worker = "running"
    /\ osc' = [osc EXCEPT !.worker = "panicked", !.cmds = <<>>]
    /\ last' = [op |-> "unwound"]
    /\ UNCHANGED <<root, ns_channel, lock, ws, threads>>

\* OscService::trigger up to the first send: self.root.read(), the node
\* at the handle rendered and encoded, a Send for every peer to come.  The
\* thread waits while a write guard is held; on a poisoned lock and for a
\* handle without node trigger returns None.
TrRead(handle, order) ==
    LET nw == with_node_at_handle(root, handle)
        msg == OscMessage(Unwrap(nw).full_path, osc_render(Unwrap(nw).node))
    IN
    /\ threads.app.pc = "idle"
    /\ threads.app.n < MaxTriggers
    /\ can_read(lock)
    /\ IF read_locked(lock).ok /\ IsSome(nw)
       THEN /\ lock' = read_lock(lock, "app")
            /\ threads' = [threads EXCEPT
                  !.app.pc = "sending",
                  !.app.pending = [i \in 1..Len(order) |->
                                      CommandSend(encode(msg), order[i])]]
            /\ last' = [op |-> "read", thread |-> "app"]
       ELSE /\ UNCHANGED lock
            /\ threads' = [threads EXCEPT !.app.n = @ + 1]
            /\ last' = [op |-> "trigger", triggered |-> FALSE]
    /\ UNCHANGED <<root, ns_channel, osc, ws>>

\* OscService::send, one turn of its loop: cmd_sender.send(..) waits while
\* the channel is full and returns an error, which is printed, once the
\* receiver is gone
TrSend ==
    /\ threads.app.pc = "sending"
    /\ threads.app.pending # <<>>
    /\ IF osc.worker # "running"
       THEN /\ UNCHANGED osc
            /\ threads' = [threads EXCEPT !.app.pending = Tail(@)]
            /\ last' = [op |-> "send", ok |-> FALSE]
       ELSE /\ Len(osc.cmds) < CHANNEL_LEN
            /\ osc' = [osc EXCEPT !.cmds = Append(@, Head(threads.app.pending))]
            /\ threads' = [threads EXCEPT
                  !.app.pending = Tail(@),
                  !.app.enq = Append(@, Head(threads.app.pending))]
            /\ last' = [op |-> "send", ok |-> TRUE]
    /\ UNCHANGED <<root, ns_channel, lock, ws>>

\* OscService::trigger returns the message and drops the read guard;
\* OscQueryServer::trigger passes the message to WSService::send
TrReturn ==
    /\ threads.app.pc = "sending"
    /\ threads.app.pending = <<>>
    /\ lock' = read_unlock(lock, "app")
    /\ ws' = ws_send(ws, "msg")
    /\ threads' = [threads EXCEPT !.app.pc = "idle", !.app.n = @ + 1]
    /\ last' = [op |-> "trigger", triggered |-> TRUE]
    /\ UNCHANGED <<root, ns_channel, osc>>

\* the OscQueryServer is dropped: its fields are dropped in the order of
\* their declaration, root (an Arc that the services share), osc, ws, _http
DropServer ==
    /\ threads.app.pc = "idle"
    /\ threads' = [threads EXCEPT !.app.pc = "drop_osc"]
    /\ last' = [op |-> "drop"]
    /\ UNCHANGED <<root, ns_channel, lock, osc, ws>>

\* impl Drop for OscService: cmd_sender.send(Command::End) waits while the
\* channel is full; with the receiver gone it is an error and drop returns
DropOscEnd ==
    /\ threads.app.pc = "drop_osc"
    /\ IF osc.worker # "running"
       THEN /\ UNCHANGED osc
            /\ threads' = [threads EXCEPT !.app.pc = "drop_ws",
                                          !.app.down = Append(@, "osc")]
            /\ last' = [op |-> "send", ok |-> FALSE]
       ELSE /\ Len(osc.cmds) < CHANNEL_LEN
            /\ osc' = [osc EXCEPT !.cmds = Append(@, CommandEnd)]
            /\ threads' = [threads EXCEPT !.app.pc = "join_osc"]
            /\ last' = [op |-> "send", ok |-> TRUE]
    /\ UNCHANGED <<root, ns_channel, lock, ws>>

\* impl Drop for OscService: handle.join() returns when the thread of the
\* worker has ended
DropOscJoin ==
    /\ threads.app.pc = "join_osc"
    /\ osc.worker # "running"
    /\ threads' = [threads EXCEPT !.app.pc = "drop_ws",
                                  !.app.down = Append(@, "osc")]
    /\ last' = [op |-> "joined"]
    /\ UNCHANGED <<root, ns_channel, lock, osc, ws>>

\* impl Drop for WSService: cmd_sender.send(Command::Close) is an error,
\* the receiver was dropped in WSService::new, and drop returns; nothing
\* tells the thread of the service to stop
DropWs ==
    /\ threads.app.pc = "drop_ws"
    /\ ws.cmd_recv = "dropped"
    /\ threads' = [threads EXCEPT !.app.pc = "drop_http",
                                  !.app.down = Append(@, "ws")]
    /\ last' = [op |-> "send", ok |-> FALSE]
    /\ UNCHANGED <<root, ns_channel, lock, osc, ws>>

\* impl Drop for HttpService: tx.send(()) completes the future of the
\* graceful shutdown
DropHttp ==
    /\ threads.app.pc = "drop_http"
    /\ threads' = [threads EXCEPT !.app.pc = "dropped",
                                  !.http = "quitting",
                                  !.app.down = Append(@, "http")]
    /\ last' = [op |-> "dropped"]
    /\ UNCHANGED <<root, ns_channel, lock, osc, ws>>

\* what the worker of the OSC service does without an input
WkRuns ==
    \/ WkTryRecv
    \/ WkTimeout
    \/ PktWrite("osc")
    \/ PktRun("osc")
    \/ WkUnwind

\* what the dropping thread does
DropRuns == DropOscEnd \/ DropOscJoin \/ DropWs \/ DropHttp

NextDrop ==
    \/ \E a \in Peers : AddSendAddr(a)
    \/ \E o \in Orders(osc.send_addrs) : TrRead(PktTree.val, o)
    \/ TrSend
    \/ TrReturn
    \/ \E buf \in DropDatagrams : WkRecv(buf)
    \/ WkRecvError
    \/ WkRuns
    \/ DropServer
    \/ DropRuns

\* the threads run: the worker goes on with its loop, recv_from returns
\* after READ_TIMEOUT at the latest, and the dropping thread goes on
DropFairness == WF_vars(WkRuns) /\ WF_vars(DropRuns)

SpecDrop == InitDrop /\ [][NextDrop]_vars /\ DropFairness

\* the nodes added where the address may be empty
RootPathNodes == {<<"Container", Str_a>>, <<"Container", Str_empty>>}

\* The tree with nodes of an empty address, and its rendering
NextRootPath ==
    \/ \E n \in RootPathNodes, p \in Parents :
          CanAlloc(MaxNodes) /\ AddNode(n[1], n[2], p)
    \/ \E h \in Handles : RmNode(h)
    \/ Serialize

SpecRootPath == Init /\ [][NextRootPath]_vars

\* The server as its callers see it: the public calls on the tree, the
\* HTTP service and the triggers, while the OSC service receives datagrams
\* and no peer has been added
NextApi ==
    \/ \E buf \in SrvDatagrams : OscWorkerRecv(buf)
    \/ \E n \in NsNodes : CanAlloc(MaxSrvNodes) /\ AddNode(n[1], n[2], None)
    \/ \E h \in Handles : RmNode(h)
    \/ \E m \in HttpMethods, p \in HttpPaths, q \in HttpQueries : HttpGet(m, p, q)
    \/ \E h \in Handles : HandleToPath(h)
    \/ Name
    \/ Serialize
    \/ \E h \in Handles : Trigger(h, <<>>)
    \/ \E p \in SrvPaths : TriggerPath(p, <<>>)

SpecApi == InitSrv /\ [][NextApi]_vars

\* Arc::new(Root::new(None)) shared by NumThreads threads, with or without
\* a consumer of the namespace changes
InitThreads ==
    /\ \E attached \in BOOLEAN :
          /\ root = [RootInnerNew(None) EXCEPT
                        !.ns_change_send = IF attached THEN Some("sender") ELSE None]
          /\ ns_channel = [queue |-> <<>>, connected |-> attached]
    /\ last = [op |-> "new_root"]
    /\ lock = RwLockNew
    /\ osc = OscServiceNew
    /\ ws = WSServiceNew
    /\ threads = [t \in 1..NumThreads |-> [pc |-> "idle", results |-> <<>>]]

\* the calls made so far, returned or not
CallsMade ==
    LET RECURSIVE Sum(_)
        Sum(n) == IF n = 0 THEN 0
                  ELSE Sum(n - 1) + Len(threads[n].results)
                           + (IF threads[n].pc = "locked" THEN 1 ELSE 0)
    IN Sum(NumThreads)

\* thread t enters Root::add_node: write_locked() returns once no other
\* thread holds the lock, with an error if the lock is poisoned
ThreadWriteLocked(t) ==
    /\ threads[t].pc = "idle"
    /\ CallsMade < MaxCalls
    /\ IsNone(lock.writer)
    /\ IF write_locked(lock).ok
       THEN /\ lock' = write_lock(lock, t)
            /\ threads' = [threads EXCEPT ![t].pc = "locked"]
       ELSE /\ threads' = [threads EXCEPT
                              ![t].results = Append(@, Err(write_locked(lock).v))]
            /\ UNCHANGED lock
    /\ last' = [op |-> "write_locked"]
    /\ UNCHANGED <<root, ns_channel, osc, ws>>

\* thread t, holding the write guard, runs RootInner::add_node and drops
\* the guard; the parent is the root or the node this thread added last
ThreadAddNode(t, parent) ==
    /\ threads[t].pc = "locked"
    /\ LET c == NodeNew("Container", Str_a, None, <<>>, None)
           a == add_node(root, ns_channel, c.v, parent)
       IN /\ root' = a.root
          /\ ns_channel' = a.chan
          /\ threads' = [threads EXCEPT ![t].pc = "idle",
                                        ![t].results = Append(@, a.result)]
    /\ lock' = write_unlock(lock)
    /\ last' = [op |-> "thread_add_node"]
    /\ UNCHANGED <<osc, ws>>

\* the parents thread t passes: None, or the handle its last call returned
OwnParents(t) ==
    {None} \cup {Some(threads[t].results[i].v) : i \in {Len(threads[t].results)} \ {0}}

\* Threads that share one Root and call add_node on it
NextThreads ==
    \/ \E t \in 1..NumThreads : ThreadWriteLocked(t)
    \/ \E t \in 1..NumThreads : \E parent \in OwnParents(t) : ThreadAddNode(t, parent)

SpecThreads == InitThreads /\ [][NextThreads]_vars

\* WSService::new on the tree of S1: the service has taken the receiver of
\* the namespace changes, no client has connected
InitWs ==
    /\ root = [S1Tree.root EXCEPT !.ns_change_send = Some("sender")]
    /\ ns_channel = [queue |-> <<>>, connected |-> TRUE]
    /\ last = [op |-> "ns_change_recv", result |-> Some("receiver")]
    /\ NoServices

\* the accept loop takes a connection of a client
Accept(a) ==
    /\ a \notin DOMAIN ws.sessions
    /\ ws' = [ws EXCEPT !.sessions = MapInsert(@, a, SessionNew)]
    /\ last' = [op |-> "accept"]
    /\ UNCHANGED <<root, ns_channel, lock, osc, threads>>

\* the session reads a frame of its client; a Binary frame that decodes
\* goes to handle_osc_packet
SessionIncoming(a, msg) ==
    /\ a \in DOMAIN ws.sessions
    /\ ws.sessions[a].registered
    /\ ws.sessions[a].incoming = "running"
    /\ ws' = [ws EXCEPT !.sessions[a] = session_incoming(@, msg)]
    /\ LET h == IF msg.frame = "Binary" /\ decode(msg.buf).ok /\ ~ws.sessions[a].close
                THEN handle_osc_packet(lock, root, ns_channel, decode(msg.buf).v, None)
                ELSE [root |-> root, chan |-> ns_channel, lock |-> lock]
       IN /\ root' = h.root
          /\ ns_channel' = h.chan
          /\ lock' = h.lock
    /\ last' = [op |-> "ws_incoming"]
    /\ UNCHANGED <<osc, threads>>

\* the session's cmds task takes a turn of its loop
SessionCmd(a) ==
    /\ a \in DOMAIN ws.sessions
    /\ ws.sessions[a].cmds = "running"
    /\ ws' = [ws EXCEPT !.sessions[a] = session_cmd(@)]
    /\ last' = [op |-> "ws_cmd"]
    /\ UNCHANGED <<root, ns_channel, lock, osc, threads>>

\* select(incoming, cmds) has completed: handle_connection returns, the
\* connection is closed and the session is taken out of the broadcast map
SessionEnd(a) ==
    /\ a \in DOMAIN ws.sessions
    /\ ws.sessions[a].registered
    /\ ws.sessions[a].incoming = "done" \/ ws.sessions[a].cmds = "done"
    /\ ws' = [ws EXCEPT !.sessions[a].registered = FALSE,
                        !.sessions[a].incoming = "done",
                        !.sessions[a].rx = <<>>]
    /\ last' = [op |-> "ws_end"]
    /\ UNCHANGED <<root, ns_channel, lock, osc, threads>>

\* The WebSocket service with its clients, the tree and the facade's trigger
NextWs ==
    \/ \E a \in WsClients : Accept(a)
    \/ \E a \in WsClients, msg \in WsFrames : SessionIncoming(a, msg)
    \/ \E a \in WsClients : SessionCmd(a)
    \/ \E a \in WsClients : SessionEnd(a)
    \/ NsRecv
    \/ \E n \in NsNodes : CanAlloc(MaxWsNodes) /\ AddNode(n[1], n[2], None)
    \/ \E h \in WsHandles : RmNode(h)
    \/ TriggerPath(Path_foo_bar, <<>>)

\* the runtime of the service runs its tasks: a cmds task that can take a
\* turn takes it, a session whose select has completed ends, the
\* namespace-change loop receives what is in its channel
WsFairness ==
    /\ WF_vars(NsRecv)
    /\ \A a \in WsClients : WF_vars(SessionCmd(a)) /\ WF_vars(SessionEnd(a))

SpecWs == InitWs /\ [][NextWs]_vars /\ WsFairness

\* the live nodes that the application has added to the tree of S1
EvAdded == {h \in WsHandles : IsSome(node_weight(root.graph, h))}

\* the parents the application passes: it adds /a, then /a/a below it
EvParents ==
    IF EvAdded = {} THEN {None}
    ELSE IF Cardinality(EvAdded) = 1 THEN {Some(h) : h \in EvAdded}
    ELSE {}

\* the node the application removes: /a, with what is below it
EvTop == {h \in EvAdded : root.graph.next[root.root][1] = h}

\* The namespace changes on their way: the application adds a node and a
\* node below it and removes the two together, the namespace-change loop
\* broadcasts, a session writes to its client
NextEvents ==
    \/ \E n \in NsNodes, p \in EvParents : AddNode(n[1], n[2], p)
    \/ \E h \in EvTop : RmNode(h)
    \/ NsRecv
    \/ \E a \in WsClients : Accept(a)
    \/ \E a \in WsClients : SessionCmd(a)
    \/ \E a \in WsClients : SessionEnd(a)

SpecEvents == InitWs /\ [][NextEvents]_vars

\* the session's cmds task takes a turn of its loop and the write of the
\* frame to the client fails
SessionCmdFails(a) ==
    /\ a \in DOMAIN ws.sessions
    /\ ws.sessions[a].cmds = "running"
    /\ writes_frame(ws.sessions[a])
    /\ ws' = [ws EXCEPT !.sessions[a] = session_cmd_write_err(@)]
    /\ last' = [op |-> "ws_write_failed", peer |-> a]
    /\ UNCHANGED <<root, ns_channel, lock, osc, threads>>

\* The namespace changes on their way to a client to whom a write can fail
NextWrite ==
    \/ NextEvents
    \/ \E a \in WsClients : SessionCmdFails(a)

SpecWrite == InitWs /\ [][NextWrite]_vars

\* the number of commands a session's channel holds where the fan-out to
\* a slow session is followed
MaxFanout == 3

\* The fan-out to a session that drains its channel slowly or not at all
\* while the application goes on changing the namespace
NextFanout ==
    \/ \E n \in NsNodes, p \in EvParents : AddNode(n[1], n[2], p)
    \/ \E h \in EvTop : RmNode(h)
    \/ NsRecvWithin(MaxFanout)
    \/ \E a \in WsClients : Accept(a)
    \/ \E a \in WsClients : SessionCmd(a)

SpecFanout == InitWs /\ [][NextFanout]_vars

----------------------------------------------------------------------------
(* Vocabulary of the properties: the tree read off the graph's edges,      *)
(* without the materialised full_path and without the path map.            *)

Live(r, h) == IsSome(node_weight(r.graph, h))

ChildSet(r, h) == {r.graph.next[h][i] : i \in 1..Len(r.graph.next[h])}

RECURSIVE Reach(_, _, _)
Reach(r, S, n) ==
    IF n = 0 THEN S
    ELSE Reach(r, S \cup UNION {ChildSet(r, x) : x \in S}, n - 1)

\* the proper descendants of h
Descendants(r, h) == Reach(r, {h}, node_bound(r.graph)) \ {h}

ParentOf(r, h) == CHOOSE p \in DOMAIN r.graph.next : h \in ChildSet(r, p)

\* '/' + address over the ancestors of h from the root down to h
RECURSIVE PathFromRoot(_, _)
PathFromRoot(r, h) ==
    IF h = r.root THEN <<>>
    ELSE PathFromRoot(r, ParentOf(r, h)) \o <<"/">> \o Unwrap(r.graph.nodes[h]).node.address

SeqRange(s) == {s[i] : i \in 1..Len(s)}

\* s is t with some entries left out
RECURSIVE IsSubseq(_, _)
IsSubseq(s, t) ==
    IF s = <<>> THEN TRUE
    ELSE IF t = <<>> THEN FALSE
    ELSE IF Head(s) = Head(t) THEN IsSubseq(Tail(s), Tail(t))
    ELSE IsSubseq(s, Tail(t))

\* what the step appended to the namespace-change queue, when it only appended
Appended == SubSeq(ns_channel'.queue, Len(ns_channel.queue) + 1, Len(ns_channel'.queue))
OnlyAppended ==
    /\ Len(ns_channel'.queue) >= Len(ns_channel.queue)
    /\ SubSeq(ns_channel'.queue, 1, Len(ns_channel.queue)) = ns_channel.queue

\* a consumer holds the receiver of the channel the tree sends on
Attached == IsSome(root.ns_change_send) /\ ns_channel.connected
Room == NS_CHANGE_LEN - Len(ns_channel.queue)

----------------------------------------------------------------------------
(* rm_node *)

\* the PATH_REMOVED events of the nodes ids, in the order of ids
RemovedEvents(ids) ==
    [i \in 1..Len(ids) |-> PathRemoved(Unwrap(root.graph.nodes[ids[i]]).full_path)]

\* what rm_node(h) on a live h does to the graph and what it returns: h and
\* all its descendants are removed and nothing else, one Node is returned
\* per removed node, every descendant before its ancestor and h's node last
RmNodeRemovesSubtree(h) ==
    LET D == Descendants(root, h) \cup {h}
        ids == last'.ids
        v == last'.result.v
    IN /\ last'.op = "rm_node"
       /\ last'.result.ok
       /\ Len(ids) = Cardinality(D)
       /\ SeqRange(ids) = D
       /\ Len(v) = Len(ids)
       /\ \A i \in 1..Len(ids) : v[i] = Unwrap(root.graph.nodes[ids[i]]).node
       /\ \A i, j \in 1..Len(ids) : ids[i] \in Descendants(root, ids[j]) => i < j
       /\ ids[Len(ids)] = h
       /\ \A x \in D : ~Live(root', x)
       /\ \A x \in DOMAIN root.graph.nodes \ D :
             root'.graph.nodes[x] = root.graph.nodes[x]

\* C1 as stated: rm_node(h) on a live handle removes h with every descendant
\* of h, returns one Node per removed node with every descendant before its
\* ancestor and h's node last, and emits one PATH_REMOVED event per removed
\* node in that same order.
C1_RmNodeEmitsAll ==
    [][\A h \in Handles :
          (last'.op = "rm_node" /\ Live(root, h) /\ RmNode(h)) =>
              /\ RmNodeRemovesSubtree(h)
              /\ ns_channel'.queue = ns_channel.queue \o RemovedEvents(last'.ids)]_vars

\* C1 as amended: rm_node(h) on a live handle removes h with every descendant
\* of h and returns one Node per removed node, every descendant before its
\* ancestor and h's node last.  The PATH_REMOVED events it places on the
\* namespace-change channel are in that same order; there is one per removed
\* node when a consumer is attached and the channel has room for all of
\* them, and there is none when no consumer is attached (an event that finds
\* the channel full is dropped).
C1_RmNodeSubtree ==
    [][\A h \in Handles :
          (last'.op = "rm_node" /\ Live(root, h) /\ RmNode(h)) =>
              /\ RmNodeRemovesSubtree(h)
              /\ OnlyAppended
              /\ IsSubseq(Appended, RemovedEvents(last'.ids))
              /\ (Attached /\ Len(last'.ids) <= Room) =>
                     Appended = RemovedEvents(last'.ids)
              /\ ~Attached => Appended = <<>>]_vars

\* a subtree of two nodes was removed and both events are on the channel
C1_Witness ==
    /\ last.op = "rm_node"
    /\ last.result.ok
    /\ Len(last.result.v) >= 2
    /\ Len(ns_channel.queue) >= 2
    /\ ns_channel.queue[Len(ns_channel.queue)].change = "PathRemoved"
    /\ ns_channel.queue[Len(ns_channel.queue) - 1].change = "PathRemoved"

\* C2: rm_node(h) called again directly after a successful rm_node(h)
\* returns an error carrying h, removes no node, leaves the graph and the
\* path map unchanged and emits no event.
C2_SecondRmNodeFails ==
    [][\A h \in Handles :
          (/\ last'.op = "rm_node"
           /\ last.op = "rm_node"
           /\ last.result.ok
           /\ last.ids[Len(last.ids)] = h
           /\ RmNode(h)) =>
              /\ ~last'.result.ok
              /\ last'.result.v[1] = h
              /\ last'.ids = <<>>
              /\ root' = root
              /\ ns_channel' = ns_channel]_vars

\* a rm_node has failed on the handle of the node removed last
C2_Witness ==
    /\ last.op = "rm_node"
    /\ ~last.result.ok
    /\ root.graph.free_node # <<>>
    /\ last.result.v[1] = Head(root.graph.free_node)
    /\ Attached

----------------------------------------------------------------------------
(* Handles *)

\* C3 as stated: a removed node id is never revived.  Once h names no node,
\* in every later state rm_node(h) is an error, handle_to_path(h) is None,
\* add_node(n, Some(h)) fails with "parent not in graph", the lookup behind
\* trigger(h) finds no node, and no add_node returns h.
C3_NoRevival ==
    [][\A h \in Handles :
          ~Live(root, h) =>
              /\ ~rm_node(root', ns_channel', h).result.ok
              /\ handle_to_path(root', h) = None
              /\ \A n \in TreeNodes :
                    LET c == NodeNew(n[1], n[2], None, TreeParams(n[1]), None) IN
                    c.ok => add_node(root', ns_channel', c.v, Some(h)).result
                               = Err(<<c.v, "parent not in graph">>)
              /\ with_node_at_handle(root', h) = None
              /\ ~(last'.op = "add_node" /\ last'.result = Ok(h))]_vars

\* the path of every live handle is the concatenation of '/' + address over
\* its ancestors from the root down to it
C4_PathIsAncestorAddresses ==
    \A h \in Handles :
        Live(root, h) => handle_to_path(root, h) = Some(PathFromRoot(root, h))

\* C4: for every handle h returned by add_node(node, parent),
\* handle_to_path(h) is the parent's full path followed by '/' and
\* node.address ('/' + address for a top-level node), that is the
\* concatenation of '/' + address over the ancestors from the root down to
\* the node, and it stays the same for as long as h is live.  (In the
\* second conjunct the step is AddNode(n, p); the two lines before it
\* follow from it and only spare its evaluation for the other n and p.)
C4_HandleToPath ==
    /\ []C4_PathIsAncestorAddresses
    /\ [][\A n \in TreeNodes, p \in Parents :
             (/\ last'.op = "add_node"
              /\ last'.result.ok
              /\ Unwrap(root'.graph.nodes[last'.result.v]).node.address = n[2]
              /\ ParentOf(root', last'.result.v) =
                     (IF IsSome(p) THEN Unwrap(p) ELSE root.root)
              /\ AddNode(n[1], n[2], p)) =>
                 handle_to_path(root', last'.result.v) =
                     Some((IF IsSome(p)
                           THEN Unwrap(handle_to_path(root, Unwrap(p)))
                           ELSE Str_empty) \o <<"/">> \o n[2])]_vars
    /\ [][\A h \in Handles :
             (Live(root, h) /\ Live(root', h)) =>
                 handle_to_path(root', h) = handle_to_path(root, h)]_vars

\* a node two levels down is live next to a vacated slot
C4_Witness ==
    \E h \in Handles :
        /\ Live(root, h)
        /\ Len(Unwrap(handle_to_path(root, h))) = 4
        /\ \E g \in Handles : ~Live(root, g)

----------------------------------------------------------------------------
(* add_node *)

\* C5: add_node(node, Some(p)) where p names no live node returns an error
\* that hands the node back and leaves the graph, the path map and the
\* namespace-change channel unchanged.
C5_AddNodeUnknownParent ==
    [][\A n \in NsNodes, h \in Handles :
          (last'.op = "add_node" /\ ~Live(root, h) /\ AddNode(n[1], n[2], Some(h))) =>
              /\ last'.result =
                    Err(<<NodeNew(n[1], n[2], None, TreeParams(n[1]), None).v,
                          "parent not in graph">>)
              /\ root' = root
              /\ ns_channel' = ns_channel]_vars

\* an add_node has failed while a consumer was attached and had room
C5_Witness ==
    /\ last.op = "add_node"
    /\ ~last.result.ok
    /\ Attached
    /\ Room > 0

\* the full path of the node a successful add_node has just added
AddedPath == Unwrap(handle_to_path(root', last'.result.v))

\* C6 as stated: every successful add_node places exactly one PATH_ADDED
\* event, carrying the new node's full path, on the namespace-change
\* channel; a failed add_node places none.
C6_AddNodeEmitsOne ==
    [][\A n \in NsNodes, p \in Parents :
          (last'.op = "add_node" /\ AddNode(n[1], n[2], p)) =>
              IF last'.result.ok
              THEN ns_channel'.queue = Append(ns_channel.queue, PathAdded(AddedPath))
              ELSE ns_channel'.queue = ns_channel.queue]_vars

\* C6 as amended: a successful add_node places exactly one PATH_ADDED event,
\* carrying the new node's full path, on the namespace-change channel when
\* a consumer is attached and the channel is not full, and none otherwise
\* (the event is dropped); a failed add_node places none.
C6_AddNodeEmitsOneIfRoom ==
    [][\A n \in NsNodes, p \in Parents :
          (last'.op = "add_node" /\ AddNode(n[1], n[2], p)) =>
              IF last'.result.ok /\ Attached /\ Room > 0
              THEN ns_channel'.queue = Append(ns_channel.queue, PathAdded(AddedPath))
              ELSE ns_channel' = ns_channel]_vars

\* an add_node below a node has put its PATH_ADDED behind another event
C6_Witness ==
    /\ last.op = "add_node"
    /\ last.result.ok
    /\ Len(ns_channel.queue) = 2
    /\ ns_channel.queue[2] = PathAdded(Unwrap(handle_to_path(root, last.result.v)))
    /\ Len(ns_channel.queue[2].path) = 4

----------------------------------------------------------------------------
(* Node constructors *)

\* C7: the node constructors return an error for every address that
\* contains '/' and succeed otherwise, so every non-root node that is
\* attached to the tree has an address without '/'.
C7_AddressWithoutSlash ==
    /\ \A v \in Variants, a \in Addresses :
          NodeNew(v, a, None, TreeParams(v), None).ok <=> ~Contains(a, "/")
    /\ last.op = "new" => ~last.result.ok
    /\ \A h \in Handles :
          Live(root, h) => ~Contains(Unwrap(root.graph.nodes[h]).node.address, "/")

\* a constructor has refused an address while nodes are attached
C7_Witness ==
    /\ last.op = "new"
    /\ ~last.result.ok
    /\ \E h \in Handles : Live(root, h)

----------------------------------------------------------------------------
(* The OSC write path *)

\* the node the path map has at path
NodeAt(r, path) == Unwrap(r.graph.nodes[r.index_map[path]]).node

\* what get() returns once the argument a has been stored
Received(a) ==
    IF a.type = "Midi"
    THEN <<a.value.port, a.value.status, a.value.data1, a.value.data2>>
    ELSE a.value

\* the step dispatches the message with arguments a to the writable node
Dispatch(a) == last'.op = "osc" /\ HandleOscPacket(OscMessage(Path_foo_val, a))

\* the positions at which a message with arguments a meets a parameter
Paired(a) == 1..Min(Len(a), Len(NodeAt(root, Path_foo_val).params))

\* a dispatch of arguments a writes every argument of a kind in kinds that
\* meets a parameter of its own kind, and get() then returns its value
WrittenExactly(a, kinds) ==
    \A i \in Paired(a) :
        LET p == NodeAt(root, Path_foo_val).params[i]
            q == NodeAt(root', Path_foo_val).params[i]
        IN (a[i].type \in kinds /\ a[i].type = p.kind) =>
               /\ last'.result = "returned"
               /\ p.store = "Atomic" => value_get(q) = Received(a[i])

\* a dispatch of arguments a leaves the parameters that meet an argument of
\* another kind as they were and writes the others
MismatchSkipped(a) ==
    \A i \in Paired(a) :
        LET p == NodeAt(root, Path_foo_val).params[i]
            q == NodeAt(root', Path_foo_val).params[i]
        IN IF a[i].type # p.kind
           THEN q = p
           ELSE p.store = "Atomic" => value_get(q) = Received(a[i])

\* every argument of a is of a storable kind
Storable(a) == \A i \in 1..Len(a) : a[i].type \in ParamKinds

\* C8 as stated: for every storable parameter kind (Int, Float, String,
\* Time, Long, Double, Char, Midi, Bool, Array) an OSC argument of that kind
\* paired positionally with a parameter of the same kind in a Set or GetSet
\* node is written through set() with exactly the received value, never
\* clipped or rejected whatever range and clip mode the parameter declares,
\* so a following get() returns the received value.  Stated of the messages
\* that carry arguments of storable kinds only.
C8_MatchingArgWritten ==
    [][\A a \in OscArgLists :
          (Storable(a) /\ Dispatch(a)) => WrittenExactly(a, ParamKinds)]_vars

\* the JSON object {"VALUE": [v]} for an integer v
JsonValueInt(v) ==
    [json |-> "object",
     v |-> [VALUE |-> [json |-> "array", v |-> <<[json |-> "number", v |-> v]>>]]]

\* C9 as stated (scenario S4): on the tree of S1, where /foo/bar is the
\* node added as Get("bar", "b", [Int(2084)]), dispatching the OSC message
\* /foo/bar [Int(7)] makes a subsequent read of the VALUE attribute of
\* /foo/bar yield [7].
C9_S4ReadsSeven ==
    [][(last'.op = "osc" /\ HandleOscPacket(S4Message)) =>
          serialize_value(root', Path_foo_bar) = Some(JsonValueInt(7))]_vars

\* C9 as amended (scenario S4): on the tree of S1, where /foo/bar is the
\* node added as Get("bar", "b", [Int(2084)]), dispatching the OSC message
\* /foo/bar [Int(7)] returns normally and writes nothing, a Get node not
\* being writable: a subsequent read of the VALUE attribute of /foo/bar
\* still yields [2084].
C9_S4GetKeepsValue ==
    [][(last'.op = "osc" /\ HandleOscPacket(S4Message)) =>
          /\ last'.result = "returned"
          /\ root' = root
          /\ serialize_value(root', Path_foo_bar) = Some(JsonValueInt(2084))]_vars

\* the message of S4 has been dispatched, after a write to the writable
\* node, and VALUE of /foo/bar reads [2084]
C9_Witness ==
    /\ last.op = "osc"
    /\ last.addr = Path_foo_bar
    /\ last.result = "returned"
    /\ serialize_value(root, Path_foo_bar) = Some(JsonValueInt(2084))
    /\ \E i \in 1..Len(NodeAt(root, Path_foo_val).params) :
          LET p == NodeAt(root, Path_foo_val).params[i] IN
          value_get(p) # WritableParam(p.kind, p.store).value

\* C10 as stated: in osc_update on a Set or GetSet node, an argument whose
\* OSC type differs from the kind of the parameter at the same position
\* leaves that parameter unchanged, while every other argument of the same
\* message whose type matches its positional parameter is still written.
\* Stated of the messages that carry arguments of storable kinds only.
C10_MismatchSkipsOnlyItself ==
    [][\A a \in OscArgLists :
          (Storable(a) /\ Dispatch(a)) => MismatchSkipped(a)]_vars

----------------------------------------------------------------------------
(* The OSC service *)

\* the variant of the live node at a path, "" when there is none
VariantAt(r, path) ==
    IF IsSome(with_node_at_path(r, path))
    THEN Unwrap(with_node_at_path(r, path))[1].node.variant
    ELSE ""

\* the datagram is a message to a live Set or GetSet node that carries a
\* Blob, Color, Nil or Inf argument
UnsupportedWrite(buf) ==
    /\ decode(buf).ok
    /\ VariantAt(root, decode(buf).v.addr) \in {"Set", "GetSet"}
    /\ \E i \in 1..Len(decode(buf).v.args) :
           decode(buf).v.args[i].type \in {"Blob", "Color", "Nil", "Inf"}

\* C11: when the OSC worker receives a message with a Blob, Color, Nil or
\* Inf argument for a live Set or GetSet node, the dispatch returns
\* normally and the worker is still running afterwards, so that later
\* packets are processed.
C11_UnsupportedArgRejected ==
    [][\A buf \in SrvDatagrams :
          (last'.op = "osc_recv" /\ UnsupportedWrite(buf) /\ OscWorkerRecv(buf)) =>
              (last'.outcome = "returned" /\ osc'.worker = "running")]_vars

\* the handle names a live Get or GetSet node
ReadableHandle(h) ==
    /\ Live(root, h)
    /\ Unwrap(node_weight(root.graph, h)).node.variant \in {"Get", "GetSet"}

\* the path names a live Get or GetSet node
ReadablePath(p) == VariantAt(root, p) \in {"Get", "GetSet"}

\* C12: trigger and trigger_path return true only for a live Get or
\* GetSet node; for a Container node, a Set node, an unknown path or a
\* removed handle they return false, enqueue no Send and broadcast nothing.
C12_TriggerOnlyReadable ==
    [][/\ \A h \in Handles, o \in Orders(osc.send_addrs) :
             (last'.op = "trigger" /\ Trigger(h, o)) =>
                 /\ last'.triggered => ReadableHandle(h)
                 /\ ~ReadableHandle(h) => (osc'.cmds = osc.cmds /\ ws' = ws)
       /\ \A p \in SrvPaths, o \in Orders(osc.send_addrs) :
             (last'.op = "trigger_path" /\ TriggerPath(p, o)) =>
                 /\ last'.triggered => ReadablePath(p)
                 /\ ~ReadablePath(p) => (osc'.cmds = osc.cmds /\ ws' = ws)]_vars

\* the commands the step has put on the OSC service's command channel
NewCmds == SubSeq(osc'.cmds, Len(osc.cmds) + 1, Len(osc'.cmds))

\* the OSC message a trigger of the node behind wrapper nw is to carry: the
\* node's full_path and one argument per parameter, of the parameter's
\* kind and with its current value
IsRendering(msg, nw) ==
    /\ msg.packet = "Message"
    /\ msg.addr = nw.full_path
    /\ Len(msg.args) = Len(nw.node.params)
    /\ \A i \in 1..Len(msg.args) :
          /\ msg.args[i].type = nw.node.params[i].kind
          /\ IF msg.args[i].type = "Midi"
             THEN <<msg.args[i].value.port, msg.args[i].value.status,
                    msg.args[i].value.data1, msg.args[i].value.data2>>
                      = nw.node.params[i].value
             ELSE msg.args[i].value = nw.node.params[i].value

\* the step has enqueued, behind what was waiting, exactly one Send per
\* registered peer, each carrying the rendering of nw
OneSendPerPeer(nw) ==
    /\ SubSeq(osc'.cmds, 1, Len(osc.cmds)) = osc.cmds
    /\ Len(NewCmds) = Cardinality(osc.send_addrs)
    /\ \A a \in osc.send_addrs : \E i \in 1..Len(NewCmds) : NewCmds[i].addr = a
    /\ \A i \in 1..Len(NewCmds) :
          /\ NewCmds[i].command = "Send"
          /\ decode(NewCmds[i].buf).ok
          /\ IsRendering(decode(NewCmds[i].buf).v, nw)

\* C13: one trigger of a live Get or GetSet node (the tree lock not being
\* poisoned) enqueues exactly one Send per registered peer, each carrying
\* the message with the node's full_path and its current parameter values
\* in parameter order.
C13_OneSendPerPeer ==
    [][\A h \in Handles, o \in Orders(osc.send_addrs) :
          (last'.op = "trigger" /\ ReadableHandle(h) /\ ~lock.poisoned
              /\ Trigger(h, o)) =>
                 OneSendPerPeer(Unwrap(node_weight(root.graph, h)))]_vars

----------------------------------------------------------------------------
(* The WebSocket service *)

\* client a has a session that is registered with the service
Registered(a) == a \in DOMAIN ws.sessions /\ ws.sessions[a].registered

\* the session's close flag is up: the client has sent Close
ClientClosed(a) == a \in DOMAIN ws.sessions /\ ws.sessions[a].close

\* the facade has just triggered /foo/bar with success while client a's
\* session is registered and subscribed to it
TriggeredFor(a) ==
    /\ last.op = "trigger_path" /\ last.triggered
    /\ Registered(a) /\ ~ClientClosed(a)
    /\ Path_foo_bar \in ws.sessions[a].listening

\* the last frame written to client a is a binary frame with the message
\* of /foo/bar and its current values
BinaryFrameFor(a) ==
    /\ a \in DOMAIN ws.sessions
    /\ IsSome(ws.sessions[a].out)
    /\ Unwrap(ws.sessions[a].out).frame = "Binary"
    /\ decode(Unwrap(ws.sessions[a].out).buf).ok
    /\ IsRendering(decode(Unwrap(ws.sessions[a].out).buf).v,
                   Unwrap(with_node_at_path(root, Path_foo_bar))[1])

\* C14: once a session has sent LISTEN for /foo/bar, a trigger_path of
\* /foo/bar on the live Get node eventually makes the session emit a
\* binary frame with the rendered message, unless the client closes the
\* connection.
C14_ListenerGetsFrame ==
    \A a \in WsClients : TriggeredFor(a) ~> (BinaryFrameFor(a) \/ ClientClosed(a))

\* the step writes a binary frame to client a
WritesBinary(a) ==
    /\ a \in DOMAIN ws'.sessions
    /\ IsSome(ws'.sessions[a].out)
    /\ Unwrap(ws'.sessions[a].out).frame = "Binary"
    /\ a \in DOMAIN ws.sessions => ws'.sessions[a].out # ws.sessions[a].out

\* the messages a trigger of a node of S1 renders
WsMessages ==
    {OscMessage(Path_foo_bar, <<OscArg("Int", 2084)>>), OscMessage(Path_foo, <<>>)}

\* what the session of client a would write if the Osc command of message
\* m were the next command its cmds task takes
OutAfterOsc(a, m) ==
    session_cmd([ws.sessions[a] EXCEPT !.rx = <<HandleOsc(m)>>, !.out = None]).out

\* C15: a session writes a binary frame to its client only for a message
\* whose address is in the session's subscription set when the frame is
\* written: no step writes any other binary frame, and in every state a
\* session's cmds task, given an Osc command, writes the frame exactly if
\* the session is subscribed to the address.  So a session that is not
\* subscribed to /foo/bar (it never sent LISTEN, or sent IGNORE after it)
\* gets no binary frame for a trigger of /foo/bar.
C15_BinaryOnlyIfListening ==
    [][\A a \in WsClients :
          /\ WritesBinary(a) =>
                /\ a \in DOMAIN ws.sessions
                /\ decode(Unwrap(ws'.sessions[a].out).buf).ok
                /\ decode(Unwrap(ws'.sessions[a].out).buf).v.addr
                       \in ws.sessions[a].listening
          /\ (Registered(a) /\ ~ClientClosed(a)) =>
                \A m \in WsMessages :
                    IF m.addr \in ws.sessions[a].listening
                    THEN OutAfterOsc(a, m) = Some(Binary(encode(m)))
                    ELSE OutAfterOsc(a, m) = None]_vars

\* /foo/bar has been triggered with success while a registered session was
\* not subscribed to it, and no binary frame has been written to its client
C15_Witness ==
    /\ last.op = "trigger_path" /\ last.triggered
    /\ \E a \in WsClients :
          /\ Registered(a)
          /\ Path_foo_bar \notin ws.sessions[a].listening
          /\ ws.sessions[a].out # None =>
                 Unwrap(ws.sessions[a].out).frame # "Binary"

\* the namespace changes of the node the application adds and removes
WsChanges == {PathAdded(<<"/">> \o Str_a), PathRemoved(<<"/">> \o Str_a)}

\* add_node or rm_node has just succeeded and put change c on the
\* namespace-change channel while client a's session is registered
ChangedFor(a, c) ==
    /\ last.op \in {"add_node", "rm_node"}
    /\ last.result.ok
    /\ Registered(a) /\ ~ClientClosed(a)
    /\ ns_channel.queue # <<>>
    /\ ns_channel.queue[Len(ns_channel.queue)] = c

\* the last frame written to client a is the text frame of change c
TextFrameFor(a, c) ==
    /\ a \in DOMAIN ws.sessions
    /\ ws.sessions[a].out = Some(ns_frame(c))

\* C16: while a session is open, every successful add_node and rm_node
\* whose event went onto the namespace-change channel eventually makes the
\* session emit the text frame {"COMMAND": "PATH_ADDED" | "PATH_REMOVED",
\* "DATA": <full path>}, whatever the session is subscribed to, unless the
\* client closes the connection.
C16_ChangeReachesSession ==
    \A a \in WsClients, c \in WsChanges :
        ChangedFor(a, c) ~> (TextFrameFor(a, c) \/ ClientClosed(a))

----------------------------------------------------------------------------
(* Threads *)

\* all the calls have been made and have returned
AllDone == CallsMade = MaxCalls /\ \A t \in 1..NumThreads : threads[t].pc = "idle"

\* the calls that have returned, as <<thread, number of the call>>
Returned == {<<t, i>> \in (1..NumThreads) \X (1..MaxCalls) :
                i <= Len(threads[t].results)}

\* C17: threads calling add_node concurrently on one shared Root never
\* deadlock (as long as a call is outstanding some thread can take a step),
\* every call that has returned has succeeded, and the handles returned are
\* pairwise distinct and all live.
C17_ConcurrentAddNode ==
    /\ AllDone \/ ENABLED NextThreads
    /\ \A x \in Returned :
          /\ threads[x[1]].results[x[2]].ok
          /\ Live(root, threads[x[1]].results[x[2]].v)
    /\ \A x, y \in Returned :
          x # y => threads[x[1]].results[x[2]].v # threads[y[1]].results[y[2]].v

\* all the calls have returned, every thread has made two at least, one
\* was made under a node of the thread's own, and a consumer of the
\* namespace changes is attached
C17_Witness ==
    /\ AllDone
    /\ \A t \in 1..NumThreads : Len(threads[t].results) >= 2
    /\ IsSome(root.ns_change_send)
    /\ \E h \in DOMAIN root.graph.nodes : h # root.root /\ ParentOf(root, h) # root.root

----------------------------------------------------------------------------
(* The HTTP service *)

\* no node is at the path
NotInNamespace(p) == IsNone(with_node_at_path(root, p))

\* no query, or the name of an attribute
RecognizedQueries == {None} \cup {Some(q) : q \in NodeQueryParams}

\* The node at the path does not have the attribute asked for: VALUE of a
\* node that cannot be read, or TYPE, RANGE, CLIPMODE, UNIT of a Container
AttributeAbsent(p, q) ==
    LET variant == VariantAt(root, p) IN
    \/ q = Some("VALUE") /\ variant \in {"Container", "Set"}
    \/ q \in {Some("TYPE"), Some("RANGE"), Some("CLIPMODE"), Some("UNIT")}
           /\ variant = "Container"

\* the status of the answer to GET p?q, None when the request panics
StatusOf(p, q) ==
    LET rsp == http_call(lock, root, "GET", p, q) IN
    IF rsp.panicked THEN None ELSE Some(rsp.v)

\* C18 as stated: a GET request for a path that is not in the namespace,
\* with no query or with a recognized attribute query, is answered with
\* status 204.
C18_UnknownPathIs204 ==
    \A p \in HttpPaths, q \in RecognizedQueries :
        NotInNamespace(p) => StatusOf(p, q) = Some(204)

\* C18, amended: a GET request for a path that is not in the namespace,
\* with no query or with a recognized attribute query, is answered
\* whenever the tree's lock is not poisoned, and an answer has status 404;
\* status 204 answers exactly the GET requests for an attribute that the
\* node at the path does not have.
C18_UnknownPathIs404 ==
    /\ \A p \in HttpPaths, q \in RecognizedQueries :
          /\ ~lock.poisoned => IsSome(StatusOf(p, q))
          /\ (NotInNamespace(p) /\ IsSome(StatusOf(p, q)))
                 => StatusOf(p, q) = Some(404)
          /\ StatusOf(p, q) = Some(204)
                 <=> (/\ ~lock.poisoned
                      /\ ~NotInNamespace(p)
                      /\ AttributeAbsent(p, q))
    /\ (last.op = "http" /\ last.method = "GET" /\ ~last.found)
          => last.status \in {None, Some(404), Some(400), Some(200)}
    /\ (last.op = "http" /\ last.status = Some(204))
          => last.method = "GET" /\ last.found

\* a GET request for a path that is not in the namespace has been answered
C18_Witness ==
    /\ last.op = "http"
    /\ last.method = "GET"
    /\ ~last.found
    /\ last.status = Some(404)

----------------------------------------------------------------------------
(* Rendering *)

\* the live nodes, the live children of h, the node in slot h
LiveNodes == {h \in DOMAIN root.graph.nodes : Live(root, h)}
LiveChildren(h) == {c \in ChildSet(root, h) : Live(root, c)}
NodeOf(h) == Unwrap(root.graph.nodes[h]).node

\* the full rendering of the node in slot h: the keys and their values
Rendering(h) == NodeSerializeWrapper(root.graph, h, None).v

\* the keys every full rendering has, DESCRIPTION when there is one
CommonKeys(h) ==
    {"ACCESS", "FULL_PATH"}
        \cup (IF IsSome(NodeOf(h).description) THEN {"DESCRIPTION"} ELSE {})

\* the type tag of parameter i of node n as the node's TYPE holds it
TypeTag(n, i) == param_osc_type_str(n.variant, n.params[i])

RECURSIVE Concat(_)
Concat(ss) == IF Len(ss) = 0 THEN <<>> ELSE Head(ss) \o Concat(Tail(ss))

\* a Container shows CONTENTS with one entry per live child, keyed by the
\* child's address and holding the child's rendering, and none of VALUE,
\* TYPE, RANGE, CLIPMODE, UNIT
ContainerRendered(h) ==
    LET j == Rendering(h) IN
    /\ DOMAIN j = CommonKeys(h) \cup {"CONTENTS"}
    /\ j["CONTENTS"].json = "object"
    /\ Cardinality(DOMAIN j["CONTENTS"].v) = Cardinality(LiveChildren(h))
    /\ \A c \in LiveChildren(h) :
          /\ NodeOf(c).address \in DOMAIN j["CONTENTS"].v
          /\ j["CONTENTS"].v[NodeOf(c).address].v = Rendering(c)

\* a leaf shows TYPE, RANGE, CLIPMODE and UNIT with one element per
\* parameter in parameter order, VALUE only when it is Get or GetSet, and
\* no CONTENTS
LeafRendered(h) ==
    LET j == Rendering(h)
        n == NodeOf(h)
        params == 1..Len(n.params)
    IN
    /\ DOMAIN j = CommonKeys(h) \cup {"TYPE", "RANGE", "CLIPMODE", "UNIT"}
                      \cup (IF n.variant \in {"Get", "GetSet"} THEN {"VALUE"} ELSE {})
    /\ j["TYPE"].v = Concat([i \in params |-> TypeTag(n, i)])
    /\ \A k \in {"RANGE", "CLIPMODE", "UNIT"} :
          /\ j[k].json = "array"
          /\ DOMAIN j[k].v = params
    /\ \A i \in params :
          /\ j["RANGE"].v[i] = param_range(n.params[i])
          /\ j["CLIPMODE"].v[i] = param_clip_mode(n.params[i])
          /\ j["UNIT"].v[i] = param_unit(n.params[i])
    /\ "VALUE" \in DOMAIN j =>
          /\ j["VALUE"].json = "array"
          /\ DOMAIN j["VALUE"].v = params
          /\ \A i \in params :
                j["VALUE"].v[i] = osc_type_json(param_osc_type(n.params[i]))

\* C19: the full rendering of a Container node shows ACCESS, FULL_PATH,
\* DESCRIPTION when present, and CONTENTS holding exactly one entry per
\* live child keyed by the child's address (each rendered recursively),
\* and no VALUE/TYPE/RANGE/CLIPMODE/UNIT; the full rendering of a leaf node
\* shows TYPE, RANGE, CLIPMODE and UNIT with one element per parameter in
\* parameter order, VALUE only when the node is Get or GetSet, and no
\* CONTENTS.
C19_FullRendering ==
    \A h \in LiveNodes :
        IF NodeOf(h).variant = "Container"
        THEN ContainerRendered(h)
        ELSE LeafRendered(h)

----------------------------------------------------------------------------
(* The poisoned lock *)

\* the call of this step reported an error or an empty result
ReportedFailure ==
    /\ last'.op = "add_node" => ~last'.result.ok
    /\ last'.op = "rm_node" => ~last'.result.ok
    /\ last'.op = "name" => IsNone(last'.name)
    /\ last'.op \in {"trigger", "trigger_path"} => ~last'.triggered
    /\ last'.op = "handle_to_path" =>
          last'.outcome = "returned" /\ IsNone(last'.path)
    /\ last'.op \in {"serialize", "http"} => last'.outcome = "returned"

\* C20: after a panic under the tree's write lock has poisoned it, every
\* public tree operation (add_node, rm_node, handle_to_path, name, node
\* serialization, trigger) reports an error or an empty result instead of
\* panicking.
C20_PoisonedLockReported ==
    [][lock.poisoned => ReportedFailure]_vars

----------------------------------------------------------------------------
(* The path-to-id map *)

\* the full_path of the live node in slot h
FullPath(h) == Unwrap(root.graph.nodes[h]).full_path

\* C21: after any sequence of add_node and rm_node calls on an initially
\* empty tree, the path-to-id map has exactly one entry per live node (root
\* included) and maps each live node's full_path to that node's id, also
\* when two nodes with the same address are added under the same parent.
C21_IndexMapIsLiveNodes ==
    /\ Cardinality(DOMAIN root.index_map) = Cardinality(LiveNodes)
    /\ \A h \in LiveNodes :
          /\ FullPath(h) \in DOMAIN root.index_map
          /\ root.index_map[FullPath(h)] = h

\* C22: in every reachable state, each entry (path, id) of the path-to-id
\* map names a node that is live in the graph and whose full_path equals
\* path; no entry points at a removed node or at a node with a different
\* full_path.
C22_IndexMapEntriesLive ==
    \A path \in DOMAIN root.index_map :
        LET id == root.index_map[path] IN
        /\ Live(root, id)
        /\ FullPath(id) = path

\* two nodes were added under one path and one of them has been removed:
\* the other is live, the map has lost the path and still has other entries
C22_Witness ==
    /\ last.op = "rm_node"
    /\ last.result.ok
    /\ \E h \in LiveNodes : FullPath(h) \notin DOMAIN root.index_map
    /\ Cardinality(DOMAIN root.index_map) >= 2

----------------------------------------------------------------------------
(* Bundles *)

\* the handler calls of m1, m2, m3 when m2 is called with the time t2
BundleCalls(t2) ==
    <<[handle |-> PktTree.val, time |-> Some(TimetagOuter)],
      [handle |-> PktTree.add, time |-> Some(t2)],
      [handle |-> PktTree.val, time |-> Some(TimetagOuter)]>>

\* the value of the parameter of /foo/val in the tree r
ValOf(r) == value_get(Unwrap(with_node_at_path(r, Path_foo_val))[1].node.params[1])

\* this step has added a node: a slot that was vacant or not there holds a
\* Get node with the path, and the path map leads to it
AddedAt(path) ==
    \E h \in DOMAIN root'.graph.nodes :
        /\ ~(h \in DOMAIN root.graph.nodes /\ Live(root, h))
        /\ Live(root', h)
        /\ Unwrap(root'.graph.nodes[h]).full_path = path
        /\ Unwrap(root'.graph.nodes[h]).node.variant = "Get"
        /\ h \in ChildSet(root', S1Tree.h1)
        /\ MapGet(root'.index_map, path) = Some(h)

\* C24: for a bundle with messages m1, m2, m3 addressed to writable nodes,
\* where m2's handler returns a mutator that adds node X: the messages are
\* dispatched in bundle order, m3's value write is applied although m2
\* returned a mutator, X exists once the dispatch has returned, and every
\* handler is called with the timetag of the bundle that directly contains
\* its message (a nested bundle's own timetag for the messages inside it).
C24_BundleOrderAndTimetag ==
    [][/\ (last'.op = "dispatch" /\ DispatchPacket(BundleFlat, None))
             => /\ last'.outcome = "returned"
                /\ last'.calls = BundleCalls(TimetagOuter)
                /\ ValOf(root') = 2084
                /\ AddedAt(Path_foo_soda)
       /\ (last'.op = "dispatch" /\ DispatchPacket(BundleNested, None))
             => /\ last'.outcome = "returned"
                /\ last'.calls = BundleCalls(TimetagInner)
                /\ ValOf(root') = 2084
                /\ AddedAt(Path_foo_soda)
       /\ (last'.op = "dispatch" /\ DispatchPacket(Msg1, None))
             => /\ last'.calls = <<[handle |-> PktTree.val, time |-> None]>>
                /\ ValOf(root') = 7]_vars

\* the nested bundle has been dispatched: m2 was called with the inner
\* timetag, /foo/val holds m3's value and /foo/soda is in the namespace
C24_Witness ==
    /\ last.op = "dispatch"
    /\ last.calls = BundleCalls(TimetagInner)
    /\ ValOf(root) = 2084
    /\ IsSome(with_node_at_path(root, Path_foo_soda))

----------------------------------------------------------------------------
(* Messages that reach no writable node *)

\* the address is not in the namespace, or names a Container or a Get node
Unwritable(addr) ==
    \/ NotInNamespace(addr)
    \/ Unwrap(with_node_at_path(root, addr))[1].node.variant
           \in {"Container", "Get"}

\* C25: an OSC message whose address is not in the namespace, or names a
\* Container or a Get node, changes no parameter value, invokes no handler
\* and yields no deferred mutator; the tree and all stored values are left
\* unchanged.
C25_UnwritableChangesNothing ==
    [][\A msg \in UnwritableMessages :
          (/\ Unwritable(msg.addr)
           /\ last'.op = "dispatch"
           /\ DispatchPacket(msg, None))
             => /\ root' = root
                /\ ns_channel' = ns_channel
                /\ lock' = lock
                /\ last'.outcome = "returned"
                /\ last'.calls = <<>>
                /\ handle_osc_msg(root, msg, None).root = root
                /\ handle_osc_msg(root, msg, None).cb = None]_vars

\* a message has been dispatched with no effect while /foo/soda, a Get
\* node, is in the namespace next to the Container /foo and the Get node
\* /foo/bar
C25_Witness ==
    /\ last.op = "dispatch"
    /\ last.outcome = "returned"
    /\ last.calls = <<>>
    /\ ~NotInNamespace(Path_foo_soda)
    /\ Unwritable(Path_foo_soda)
    /\ Unwritable(Path_foo_bar)
    /\ Unwritable(Path_foo)
    /\ Unwritable(Path_nope)

----------------------------------------------------------------------------
(* The two phases of handle_osc_packet *)

\* the nodes that the mutators of /foo/add "soda" and /foo/add "cola" add
SodaNode == NodeNew("Get", Str_soda, None,
                    <<Param("Int", 1, "Atomic", "none", [range |-> "None"], None)>>,
                    None).v
ColaNode == NodeNew("Get", Str_cola, None,
                    <<Param("Int", 1, "Atomic", "none", [range |-> "None"], None)>>,
                    None).v

\* the tree r after soda and then cola have been added under /foo
SodaThenCola(r) ==
    add_node(add_node(r, ns_channel, SodaNode, Some(S1Tree.h1)).root,
             ns_channel, ColaNode, Some(S1Tree.h1)).root

\* dispatcher d runs its collected mutators in this step
RunsMutators(d) == threads[d].pc = "writing" /\ threads'[d].pc # "writing"

\* a thread that runs mutators holds the write guard and no read guard,
\* and has gone through the walk of its packet under one read guard
MutatorsUnderWriteLockOnly ==
    \A d \in Dispatchers :
        /\ threads[d].pc = "writing"
              => lock.writer = Some(d) /\ lock.readers = {}
        /\ threads[d].pc = "reading"
              => d \in lock.readers /\ IsNone(lock.writer)
        /\ threads[d].pc = "collected" => d \notin lock.readers

\* the mutators of a packet run in the order of their messages
MutatorsInPacketOrder ==
    \A d \in Dispatchers :
        (RunsMutators(d) /\ threads[d].packet = Some(BundleTwoAdds))
            => /\ root' = SodaThenCola(root)
               /\ last'.op = "returned"

----------------------------------------------------------------------------
(* Readers and the writer *)

\* the tree as a thread with a read guard finds it: as it was before the
\* call that the application's thread is in, or as that call leaves it
WholeCalls ==
    threads.app.pc = "writing"
        => \/ root = Unwrap(threads.app.before)
           \/ root = threads.app.steps[Len(threads.app.steps)]

\* C29: a reader (path lookup, OSC dispatch, JSON rendering, trigger)
\* running concurrently with add_node or rm_node never observes a
\* partially applied mutation: it sees a node either with its graph entry,
\* its parent edge and its path-map insertion all in place or with none of
\* them, and it sees a subtree being removed either entirely present or
\* entirely gone.
C29_ReadersSeeWholeCalls ==
    lock.readers # {} => WholeCalls

\* a dispatcher holds a read guard after the application has added a node
\* and removed it, while the other dispatcher waits for the write lock
C29_Witness ==
    /\ lock.readers # {}
    /\ threads.app.n >= 2
    /\ threads.app.own = <<>>
    /\ threads.app.pc = "idle"
    /\ \E d \in Dispatchers : threads[d].pc = "collected"

----------------------------------------------------------------------------
(* The order of the namespace changes *)

\* path p is a proper ancestor's path of path q
PathAbove(p, q) ==
    /\ Len(p) < Len(q)
    /\ SubSeq(q, 1, Len(p)) = p
    /\ q[Len(p) + 1] = "/"

\* a successful add_node sends at most the PATH_ADDED of the node it adds,
\* behind what is waiting; the parent is a node that was there before the
\* call and the new node has no child yet, so that the event of a parent
\* is sent before the add_node of any of its children is called
AddedBehindParent ==
    (last'.op = "add_node" /\ last'.result.ok) =>
        LET h == last'.result.v IN
        /\ OnlyAppended
        /\ IsSubseq(Appended, <<PathAdded(AddedPath)>>)
        /\ Live(root, ParentOf(root', h))
        /\ ChildSet(root', h) = {}
        /\ ParentOf(root', h) # root.root =>
               PathAbove(Unwrap(root.graph.nodes[ParentOf(root', h)]).full_path,
                         AddedPath)

\* a successful rm_node sends PATH_REMOVED events only, behind what is
\* waiting, none of them after the event of an ancestor of its node
RemovedLeavesFirst ==
    (last'.op = "rm_node" /\ last'.result.ok) =>
        /\ OnlyAppended
        /\ \A i \in 1..Len(Appended) : Appended[i].change = "PathRemoved"
        /\ \A i, j \in 1..Len(Appended) :
              PathAbove(Appended[i].path, Appended[j].path) => j < i

\* the namespace-change loop takes the oldest event of the channel and
\* puts it behind what is waiting for every registered session
BroadcastInOrder ==
    last'.op = "ns_recv" =>
        /\ ns_channel'.queue = Tail(ns_channel.queue)
        /\ \A a \in DOMAIN ws.sessions :
              ws'.sessions[a].rx =
                  IF ws.sessions[a].registered
                  THEN Append(ws.sessions[a].rx,
                              HandleNamespaceChange(Head(ns_channel.queue)))
                  ELSE ws.sessions[a].rx

\* a session takes the oldest of what is waiting and, unless it is
\* closing, writes the frame of that change to its client
EmittedInOrder ==
    last'.op = "ws_cmd" =>
        \A a \in DOMAIN ws.sessions :
            LET ss == ws.sessions[a] IN
            IF ss.cmds = "running" /\ ss.rx # <<>>
            THEN /\ ws'.sessions[a].rx = Tail(ss.rx)
                 /\ ws'.sessions[a].out =
                        IF ss.close THEN ss.out
                        ELSE Some(ns_frame(Head(ss.rx).change))
            ELSE /\ ws'.sessions[a].rx = ss.rx
                 /\ ws'.sessions[a].out = ss.out

\* no other step touches the channel or what waits for a session, but
\* the end of a session, which drops what waits for it
NothingReordered ==
    /\ last'.op \notin {"add_node", "rm_node", "ns_recv"} => ns_channel' = ns_channel
    /\ last'.op \notin {"ns_recv", "ws_cmd", "ws_end", "accept"} => ws' = ws
    /\ last'.op = "accept" =>
          \A a \in DOMAIN ws.sessions : ws'.sessions[a] = ws.sessions[a]

\* C26: in the stream of namespace-change events, the PATH_ADDED of a node
\* precedes the PATH_ADDED of each of its children, and the PATH_REMOVED of
\* every descendant precedes the PATH_REMOVED of its ancestor; each session
\* emits the events to its client in the order in which the service
\* broadcast them.
C26_EventsInOrder ==
    [][/\ AddedBehindParent
       /\ RemovedLeavesFirst
       /\ BroadcastInOrder
       /\ EmittedInOrder
       /\ NothingReordered]_vars

\* the session has written PATH_REMOVED of /a/a to its client while
\* PATH_REMOVED of /a is waiting behind it
C26_Witness ==
    /\ last.op = "ws_cmd"
    /\ "client1" \in DOMAIN ws.sessions
    /\ ws.sessions["client1"].out =
          Some(ns_frame(PathRemoved(<<"/">> \o Str_a \o <<"/">> \o Str_a)))
    /\ ws.sessions["client1"].rx =
          <<HandleNamespaceChange(PathRemoved(<<"/">> \o Str_a))>>

----------------------------------------------------------------------------
(* The tree does not wait for the consumer of its events *)

\* a channel with a consumer and nothing waiting, and the tree r sending
\* on it
EmptyChannel == [queue |-> <<>>, connected |-> TRUE]
Sending(r) == [r EXCEPT !.ns_change_send = Some("sender")]

\* the event cannot be delivered: the channel is full or its consumer is
\* gone
Undeliverable == IsSome(root.ns_change_send) /\ (Room = 0 \/ ~ns_channel.connected)

\* C27: add_node and rm_node never block on the namespace-change channel:
\* when the channel is full (or its consumer is gone) the event is dropped,
\* the call still returns its normal success result, and the graph and the
\* path map are updated exactly as they would be had the event been
\* delivered.
C27_NeverBlocksOnChannel ==
    [][/\ \A n \in NsNodes, p \in Parents :
             (last'.op = "add_node" /\ AddNode(n[1], n[2], p)) =>
                 LET node == NodeNew(n[1], n[2], None, TreeParams(n[1]), None).v
                     d == add_node(Sending(root), EmptyChannel, node, p)
                 IN /\ last'.result = d.result
                    /\ root'.graph = d.root.graph
                    /\ root'.index_map = d.root.index_map
                    /\ Undeliverable => ns_channel' = ns_channel
       /\ \A h \in Handles :
             (last'.op = "rm_node" /\ RmNode(h)) =>
                 LET d == rm_node(Sending(root), EmptyChannel, h) IN
                 /\ last'.result = d.result
                 /\ root'.graph = d.root.graph
                 /\ root'.index_map = d.root.index_map
                 /\ Undeliverable => ns_channel' = ns_channel]_vars

\* add_node has returned a handle although the channel was full: the
\* event of the new node is not on it
C27_Witness ==
    /\ last.op = "add_node"
    /\ last.result.ok
    /\ Attached
    /\ Room = 0
    /\ \A i \in 1..Len(ns_channel.queue) :
          ns_channel.queue[i] # PathAdded(Unwrap(handle_to_path(root, last.result.v)))

----------------------------------------------------------------------------
(* The queue of a session *)

\* C28: the per-session out-queue of a WebSocket session never holds more
\* than its bounded capacity (about 1024, CHANNEL_LEN) of pending fan-out
\* messages, however fast namespace changes are produced and however
\* slowly the session drains its queue.
C28_SessionQueueBounded ==
    \A a \in DOMAIN ws.sessions : Len(ws.sessions[a].rx) <= CHANNEL_LEN

----------------------------------------------------------------------------
(* Datagrams that are no OSC packets *)

\* C30: a UDP datagram that fails to decode as an OSC packet is dropped:
\* the OSC worker keeps running and goes on to process later datagrams
\* and queued Send/End commands.
C30_UndecodableDropped ==
    [][\A buf \in SrvDatagrams :
          (last'.op = "osc_recv" /\ ~decode(buf).ok /\ OscWorkerRecv(buf)) =>
              /\ last'.outcome = "returned"
              /\ osc'.worker = "running"
              /\ osc'.cmds = osc.cmds
              /\ root' = root
              /\ ENABLED (\E later \in SrvDatagrams : OscWorkerRecv(later))]_vars

----------------------------------------------------------------------------
(* The end of the OSC service *)

\* the OSC service has been dropped: its drop has returned
OscDropped == threads.app.pc \in {"drop_ws", "drop_http", "dropped"}

\* the Sends among the commands that wait in the channel
WaitingSends == SelectSeq(osc.cmds, LAMBDA c : c.command = "Send")

\* the worker sends what it is given in the order it was given
SendsInOrder ==
    /\ osc.worker = "running" =>
          threads.sock \o WaitingSends = threads.app.enq
    /\ osc.worker = "ended" => threads.sock = threads.app.enq

\* a worker that has read End does nothing more
EndIsLast ==
    (osc.worker = "ended") =>
        /\ threads.osc.pc = "ended"
        /\ (threads.osc' = threads.osc /\ threads.sock' = threads.sock
            /\ root' = root /\ lock' = lock)

\* the drop joins the worker that took its End, and only that one
JoinedIfEndTaken ==
    /\ threads.app.pc = "join_osc" /\ osc.worker = "running" =>
          osc.cmds # <<>> /\ osc.cmds[Len(osc.cmds)] = CommandEnd
    /\ OscDropped => osc.worker # "running"

\* C31, as claimed: when the OSC service has been dropped, its worker has
\* exited on reading End, after it has sent every Send that was put into
\* the channel before End, in the order they were put in.
C31_DropSendsAllThenEnds ==
    OscDropped => osc.worker = "ended" /\ threads.sock = threads.app.enq

\* C31, amended: the worker sends the Sends in the order they were put
\* into the channel, and a worker that reads End has sent every one of
\* them and exits at once; the drop of the service joins the worker that
\* is to take End, returns at once when the worker has gone before (on a
\* receive error or a panic, with what then waits in the channel never
\* sent), and returns eventually in every case.
C31_DropReturns ==
    /\ [](SendsInOrder /\ JoinedIfEndTaken)
    /\ [][EndIsLast]_vars
    /\ (threads.app.pc = "drop_osc" ~> OscDropped)

\* the server has been dropped after two Sends were queued behind each
\* other: the worker has sent the two and then exited on End
C31_Witness ==
    /\ threads.app.pc = "dropped"
    /\ osc.worker = "ended"
    /\ Len(threads.sock) >= 2
    /\ threads.sock = threads.app.enq

----------------------------------------------------------------------------
(* The order of the facade's destruction *)

\* the order of destruction as claimed, without the tree, which goes last
ClaimedOrder == <<"http", "ws", "osc">>

\* C32: when the facade is destroyed its parts are shut down in the order
\* HTTP service, WebSocket service, OSC service (and then the tree): the
\* parts whose drop has run are the first of that order at every moment,
\* and no service that has been dropped is still serving.
C32_DestructionOrder ==
    /\ Len(threads.app.down) <= Len(ClaimedOrder)
    /\ \A i \in DOMAIN threads.app.down : threads.app.down[i] = ClaimedOrder[i]
    /\ threads.app.pc = "dropped" =>
          threads.http = "quitting" /\ threads.ws = "quitting"

----------------------------------------------------------------------------
(* Trigger and the reception of OSC *)

\* a thread inside trigger holds the read guard and waits in
\* cmd_sender.send for room in the full channel
TriggerWaitsForRoom ==
    /\ threads.app.pc = "sending"
    /\ threads.app.pending # <<>>
    /\ "app" \in lock.readers
    /\ osc.worker = "running"
    /\ Len(osc.cmds) = CHANNEL_LEN

\* the worker, the one receiver of that channel, waits in root.write() to
\* run the callback it has collected
WorkerWaitsForWrite ==
    /\ threads.osc.pc = "collected"
    /\ IsSome(threads.osc.cb)
    /\ ~can_write(lock)

\* C35: the trigger and the reception of OSC never wait for each other: in
\* no state does a thread inside trigger wait for room in the command
\* channel with the read guard in its hands while the worker waits for the
\* write lock.
C35_NoTriggerDeadlock == ~(TriggerWaitsForRoom /\ WorkerWaitsForWrite)

----------------------------------------------------------------------------
(* A frame that cannot be written *)

\* the session of peer a takes the next command out of its channel
TakesCommand(a) ==
    /\ ws.sessions[a].rx # <<>>
    /\ ws'.sessions[a].registered
    /\ ws'.sessions[a].rx = Tail(ws.sessions[a].rx)

\* C33: when the write of a frame to a client fails, the session of that
\* client terminates and is taken out of the map of peers: its cmds task
\* is done with the failure and the session takes no further command, so
\* that the next thing that happens to it is its removal.
C33_WriteFailureEndsSession ==
    [][last.op = "ws_write_failed" =>
          /\ ws.sessions[last.peer].cmds = "done"
          /\ ~TakesCommand(last.peer)]_vars

----------------------------------------------------------------------------
(* A session with nothing to do *)

\* the session of peer a is registered, has read no Close and has nothing
\* waiting in its channel
IdleSession(a) ==
    /\ ws.sessions[a].registered
    /\ ws.sessions[a].incoming = "running"
    /\ ws.sessions[a].cmds = "running"
    /\ ~ws.sessions[a].close
    /\ ws.sessions[a].rx = <<>>

\* C34: an accepted session that has nothing waiting in its channel and
\* has read no Close frame stays alive and registered: whatever happens
\* next, its cmds task still waits and it is still in the map of peers,
\* unless the step is the Close frame of its client.
C34_IdleSessionStays ==
    [][\A a \in DOMAIN ws.sessions :
          IdleSession(a) =>
              \/ ws'.sessions[a].close
              \/ /\ ws'.sessions[a].registered
                 /\ ws'.sessions[a].cmds = "running"]_vars

----------------------------------------------------------------------------
(* The path of the root *)

\* C36: the path "/" always resolves to the root that RootInner::new made:
\* whatever nodes have been added and removed, whatever addresses the
\* constructors accepted, the path map has the root's index at "/", and
\* the rendering of the whole tree, which starts from there, finds it.
C36_SlashIsRoot ==
    /\ MapGet(root.index_map, <<"/">>) = Some(root.root)
    /\ ~Root_serialize(lock, root).panicked

----------------------------------------------------------------------------
(* The nodes the rendering of the tree shows *)

\* the FULL_PATH of every object of a rendering: the object's own and
\* those of the objects under its CONTENTS
RECURSIVE RenderedPaths(_)
RenderedPaths(j) ==
    {j.v["FULL_PATH"].v}
        \cup (IF "CONTENTS" \in DOMAIN j.v
              THEN UNION {RenderedPaths(j.v["CONTENTS"].v[k]) :
                              k \in DOMAIN j.v["CONTENTS"].v}
              ELSE {})

\* the node in slot h has a parent that is no Container
UnderLeaf(h) ==
    \E p \in LiveNodes : h \in ChildSet(root, p) /\ NodeOf(p).variant # "Container"

\* C37: every live node is shown by the rendering of the whole tree: its
\* full_path is the FULL_PATH of an object of the rendering of "/", also
\* when its parent is a Get, Set or GetSet node.
C37_EveryLiveNodeRendered ==
    \A h \in LiveNodes : FullPath(h) \in RenderedPaths(RootInner_serialize(root))

----------------------------------------------------------------------------
(* A consumer that replays the namespace changes *)

\* one event applied to a set of paths
ApplyChange(S, c) ==
    IF c.change = "PathAdded" THEN S \cup {c.path} ELSE S \ {c.path}

\* the events of q applied in order
RECURSIVE ReplayAll(_, _)
ReplayAll(S, q) ==
    IF q = <<>> THEN S ELSE ReplayAll(ApplyChange(S, Head(q)), Tail(q))

\* the consumer holds the receiver before the tree is touched and has
\* seen nothing
InitReplay ==
    /\ root = [RootInnerNew(None) EXCEPT !.ns_change_send = Some("sender")]
    /\ ns_channel = [queue |-> <<>>, connected |-> TRUE]
    /\ last = [op |-> "ns_change_recv", result |-> Some("receiver")]
    /\ lock = RwLockNew
    /\ osc = OscServiceNew
    /\ ws = WSServiceNew
    /\ threads = [paths |-> {}]

\* Receiver::recv by the consumer: the oldest event leaves the channel and
\* is applied to the paths the consumer holds
ReplayRecv ==
    /\ ns_channel.queue # <<>>
    /\ ns_channel' = [ns_channel EXCEPT !.queue = Tail(ns_channel.queue)]
    /\ threads' = [paths |-> ApplyChange(threads.paths, Head(ns_channel.queue))]
    /\ last' = [op |-> "replay"]
    /\ UNCHANGED <<root, lock, osc, ws>>

\* the events rm_node(h) sends: one per node it removes
RmEvents(h) ==
    IF Live(root, h) THEN Cardinality(Descendants(root, h) \cup {h}) ELSE 0

\* the tree changes while the consumer receives, and the channel has room
\* for the events of every call
NextReplay ==
    \/ \E n \in NsNodes, p \in Parents :
          CanAlloc(MaxNsNodes) /\ Room > 0 /\ AddNode(n[1], n[2], p)
    \/ \E h \in Handles : Room >= RmEvents(h) /\ RmNode(h)
    \/ ReplayRecv

SpecReplay == InitReplay /\ [][NextReplay]_vars

\* C38: with the consumer attached before the first mutation and no event
\* dropped, the PATH_ADDED and PATH_REMOVED events replayed in order as
\* insertions into and deletions from a set give, after every completed
\* add_node and rm_node, the set of the full paths of the live nodes
\* other than the root, also when two nodes with the same address are
\* added under the same parent.
C38_ReplayIsLivePaths ==
    ReplayAll(threads.paths, ns_channel.queue)
        = {FullPath(h) : h \in LiveNodes \ {root.root}}

----------------------------------------------------------------------------
(* The one consumer of the namespace changes *)

\* C39: a tree has at most one namespace-change consumer: the first call
\* of ns_change_recv, which WSService::new makes for spawn_ws, gets the
\* receiver; every later call gets none, so that spawn_ws returns an
\* error, and leaves the sender, the channel and the events waiting in it
\* as they were, so that the first consumer goes on receiving.
C39_OneConsumer ==
    [][last'.op = "ns_change_recv" =>
          IF IsSome(root.ns_change_send)
          THEN /\ last'.result = None
               /\ root' = root
               /\ ns_channel' = ns_channel
          ELSE /\ last'.result = Some("receiver")
               /\ IsSome(root'.ns_change_send)
               /\ ns_channel'.connected]_vars

\* a second spawn_ws has failed while the first consumer holds the
\* receiver and an event is waiting for it
C39_Witness ==
    /\ last.op = "ns_change_recv"
    /\ last.result = None
    /\ Attached
    /\ ns_channel.queue # <<>>

====
